---- MODULE Spec2Model ----
(***************************************************************************)
(* A model of src/src/server.py: the Yandex.Wordstat tool server.          *)
(*                                                                         *)
(* One tool invocation is followed from the call to its result.  A tool    *)
(* is an async function with a single suspension point, the HTTP request   *)
(* of make_wordstat_request, so an invocation takes two steps: Invoke      *)
(* (validation, payload, the gateway up to the dispatch of the request)    *)
(* and Respond (the upstream outcome, the status mapping, normalisation    *)
(* and formatting, the except clauses).  The response helpers are pure     *)
(* functions; HelperSpec applies each of them on its own to JSON values    *)
(* no tool body of the model passes them.  MainSpec follows the process    *)
(* from its start (the import that reads the environment into Config,      *)
(* main(), the run loop) to its exit, and ConcurrentSpec runs several      *)
(* invocations at once, each in its own frame.                             *)
(*                                                                         *)
(* Conventions.  An Optional value is a sequence of length 0 (None) or 1.  *)
(* Strings whose characters the code inspects (device names, dates) are    *)
(* sequences of one-character strings.  A JSON value is a tagged record.   *)
(* A ToolError message is a record [kind, status, cause, errs] standing    *)
(* for the message text: kind names the message template, status, cause    *)
(* and errs are what the template interpolates.                            *)
(***************************************************************************)
EXTENDS Integers, Sequences, FiniteSets, TLC

VARIABLES
    config,     \* Config: OAUTH_TOKEN and REQUEST_TIMEOUT_SECONDS
    pc,         \* "idle", "awaiting" (suspended in client.post/get), "done"
    call,       \* the invocation: the tool and its raw arguments
    validated,  \* the pydantic model built from the arguments
    request,    \* Optional: the HTTP request dispatched
    httpCount,  \* number of HTTP requests dispatched by this invocation
    upstream,   \* Optional: what the transport gave back
    gateway,    \* Optional: how make_wordstat_request ended
    result,     \* Optional: how the tool ended
    helper,     \* a response helper applied on its own: its input and output
    process,    \* the server process: its environment and where main() is
    tasks       \* the invocations the runtime runs concurrently, one frame each

vars == <<config, pc, call, validated, request, httpCount, upstream, gateway, result, helper,
          process, tasks>>

(***************************************************************************)
(* Bounds of the model.                                                    *)
(***************************************************************************)
\* how far outside [1, MAX_TOP_REQUESTS_LIMIT] the limit argument is drawn
LimitSlack == 2
\* longest devices list drawn as an argument
MaxDevices == 2

(***************************************************************************)
(* Optional values and small helpers.                                      *)
(***************************************************************************)
None == <<>>
Some(x) == <<x>>
IsNone(o) == Len(o) = 0
IsSome(o) == Len(o) = 1
Val(o) == o[1]

Range(s) == {s[i] : i \in DOMAIN s}

RECURSIVE SeqsUpTo(_, _)
\* all sequences over S of length at most n
SeqsUpTo(S, n) ==
    IF n = 0 THEN {<<>>}
    ELSE LET shorter == SeqsUpTo(S, n - 1)
         IN  shorter \cup {Append(s, x) : s \in {t \in shorter : Len(t) = n - 1}, x \in S}

(***************************************************************************)
(* Characters: str.upper() on the letters the inputs use.                  *)
(***************************************************************************)
LowerLetters == <<"a","b","c","d","e","f","g","h","i","j","k","l","m",
                  "n","o","p","q","r","s","t","u","v","w","x","y","z">>
UpperLetters == <<"A","B","C","D","E","F","G","H","I","J","K","L","M",
                  "N","O","P","Q","R","S","T","U","V","W","X","Y","Z">>

UpperChar(c) ==
    IF \E i \in DOMAIN LowerLetters : LowerLetters[i] = c
    THEN UpperLetters[CHOOSE i \in DOMAIN LowerLetters : LowerLetters[i] = c]
    ELSE c

\* str.upper()
Upper(s) == [i \in DOMAIN s |-> UpperChar(s[i])]

(***************************************************************************)
(* WordstatConstants                                                       *)
(***************************************************************************)
DEFAULT_TOP_REQUESTS_LIMIT == 10
MAX_TOP_REQUESTS_LIMIT == 100
REGIONS_DISTRIBUTION_OUTPUT_LIMIT == 20

DESKTOP == <<"D","E","S","K","T","O","P">>
MOBILE  == <<"M","O","B","I","L","E">>
TABLET  == <<"T","A","B","L","E","T">>
ALL     == <<"A","L","L">>

VALID_DEVICE_TYPES == <<DESKTOP, MOBILE, TABLET, ALL>>
VALID_PERIODS == <<"DAILY", "WEEKLY", "MONTHLY">>
VALID_REGION_TYPES == <<"COUNTRY", "REGION", "CITY">>

(***************************************************************************)
(* Validation errors.  A pydantic ValidationError lists one entry per      *)
(* failed field: the field, the rule and the bound the message names       *)
(* (0 when the rule has no bound).                                         *)
(***************************************************************************)
VErr(f, r, b) == [field |-> f, rule |-> r, bound |-> b]

\* Field(min_length=1) on a str
PhraseErrs(phrase) ==
    IF Len(phrase) >= 1 THEN {} ELSE {VErr("phrase", "string_too_short", 1)}

\* a mutated limit: the upper bound is not checked
LimitErrsNoUpper(limit) ==
    IF IsNone(limit) THEN {}
    ELSE IF Val(limit) < 1 THEN {VErr("limit", "greater_than_equal", 1)}
    ELSE {}

\* Optional[int] with ge=1, le=MAX_TOP_REQUESTS_LIMIT: None passes, the
\* constraints apply to an int
LimitErrs(limit) ==
    IF IsNone(limit) THEN {}
    ELSE IF Val(limit) < 1 THEN {VErr("limit", "greater_than_equal", 1)}
    ELSE IF Val(limit) > MAX_TOP_REQUESTS_LIMIT
         THEN {VErr("limit", "less_than_equal", MAX_TOP_REQUESTS_LIMIT)}
    ELSE {}

\* a mutated validator: an unknown device is dropped instead of raising
RegValidateDevicesSkipping(v) ==
    IF IsNone(v) THEN [ok |-> TRUE, value |-> None]
    ELSE LET valid_devices == {Upper(d) : d \in Range(VALID_DEVICE_TYPES)}
             keep == SelectSeq(Val(v), LAMBDA d : Upper(d) \in valid_devices)
         IN  [ok |-> TRUE, value |-> Some([i \in DOMAIN keep |-> Upper(keep[i])])]

\* TopRequestsInput.validate_devices: the normalized list, or the raise at
\* the first device whose upper() is not a valid device
TopValidateDevices(v) ==
    IF IsNone(v) THEN [ok |-> TRUE, value |-> None]
    ELSE LET valid_devices == {Upper(d) : d \in Range(VALID_DEVICE_TYPES)}
             bad == {i \in DOMAIN Val(v) : Upper(Val(v)[i]) \notin valid_devices}
         IN  IF bad = {}
             THEN [ok |-> TRUE, value |-> Some([i \in DOMAIN Val(v) |-> Upper(Val(v)[i])])]
             ELSE [ok |-> FALSE, value |-> None]

\* DynamicsInput.validate_devices
DynValidateDevices(v) ==
    IF IsNone(v) THEN [ok |-> TRUE, value |-> None]
    ELSE LET valid_devices == {Upper(d) : d \in Range(VALID_DEVICE_TYPES)}
             bad == {i \in DOMAIN Val(v) : Upper(Val(v)[i]) \notin valid_devices}
         IN  IF bad = {}
             THEN [ok |-> TRUE, value |-> Some([i \in DOMAIN Val(v) |-> Upper(Val(v)[i])])]
             ELSE [ok |-> FALSE, value |-> None]

\* RegionsDistributionInput.validate_devices
RegValidateDevices(v) ==
    IF IsNone(v) THEN [ok |-> TRUE, value |-> None]
    ELSE LET valid_devices == {Upper(d) : d \in Range(VALID_DEVICE_TYPES)}
             bad == {i \in DOMAIN Val(v) : Upper(Val(v)[i]) \notin valid_devices}
         IN  IF bad = {}
             THEN [ok |-> TRUE, value |-> Some([i \in DOMAIN Val(v) |-> Upper(Val(v)[i])])]
             ELSE [ok |-> FALSE, value |-> None]

DevicesErrs(r) == IF r.ok THEN {} ELSE {VErr("devices", "value_error", 0)}

(***************************************************************************)
(* Dates: datetime.strptime(v, '%Y-%m-%d') and the order of datetimes.     *)
(***************************************************************************)
Digits == <<"0","1","2","3","4","5","6","7","8","9">>
IsDigit(c) == \E i \in DOMAIN Digits : Digits[i] = c
DigitVal(c) == (CHOOSE i \in DOMAIN Digits : Digits[i] = c) - 1

RECURSIVE NumVal(_)
\* int() of a string of digits
NumVal(s) ==
    IF Len(s) = 0 THEN 0
    ELSE 10 * NumVal(SubSeq(s, 1, Len(s) - 1)) + DigitVal(s[Len(s)])

AllDigits(s) == Len(s) >= 1 /\ \A i \in DOMAIN s : IsDigit(s[i])

IsLeap(y) == (y % 4 = 0 /\ y % 100 # 0) \/ y % 400 = 0

DaysInMonth(y, m) ==
    IF m = 2 THEN (IF IsLeap(y) THEN 29 ELSE 28)
    ELSE IF m \in {4, 6, 9, 11} THEN 30 ELSE 31

NoDate == [ok |-> FALSE, y |-> 0, m |-> 0, d |-> 0]

\* strptime: %Y is four digits, %m one or two digits in 1..12, %d one or two
\* digits in 1..31, separated by "-"; then datetime() checks the day of the
\* month and the year.  ok = FALSE stands for the ValueError.
Strptime(s) ==
    LET dashes == {i \in DOMAIN s : s[i] = "-"}
    IN  IF Cardinality(dashes) # 2 THEN NoDate
        ELSE LET d1 == CHOOSE i \in dashes : \A j \in dashes : i <= j
                 d2 == CHOOSE i \in dashes : \A j \in dashes : i >= j
                 ys == SubSeq(s, 1, d1 - 1)
                 ms == SubSeq(s, d1 + 1, d2 - 1)
                 ds == SubSeq(s, d2 + 1, Len(s))
             IN  IF ~(AllDigits(ys) /\ AllDigits(ms) /\ AllDigits(ds)) THEN NoDate
                 ELSE IF Len(ys) # 4 \/ Len(ms) > 2 \/ Len(ds) > 2 THEN NoDate
                 ELSE IF NumVal(ms) \notin 1..12 \/ NumVal(ds) \notin 1..31 THEN NoDate
                 ELSE IF NumVal(ys) < 1 \/ NumVal(ds) > DaysInMonth(NumVal(ys), NumVal(ms))
                      THEN NoDate
                 ELSE [ok |-> TRUE, y |-> NumVal(ys), m |-> NumVal(ms), d |-> NumVal(ds)]

\* start > end on two datetimes
DateAfter(a, b) ==
    \/ a.y > b.y
    \/ a.y = b.y /\ a.m > b.m
    \/ a.y = b.y /\ a.m = b.m /\ a.d > b.d

\* DynamicsInput.validate_date_format on one field
DateFormatErrs(field, v) ==
    IF IsSome(v) /\ ~Strptime(Val(v)).ok THEN {VErr(field, "value_error", 0)} ELSE {}

\* a mutated range check: the dates are compared as strings would be after
\* a rejection of equal dates
RangeRejectsEqual(from_date, to_date) ==
    IF IsSome(from_date) /\ Len(Val(from_date)) > 0
       /\ IsSome(to_date) /\ Len(Val(to_date)) > 0
    THEN LET start == Strptime(Val(from_date))
             end == Strptime(Val(to_date))
         IN  IF DateAfter(start, end) \/ start = end
             THEN {VErr("model", "value_error", 0)} ELSE {}
    ELSE {}

\* DynamicsInput.validate_date_range: runs after every field validated; a
\* field is skipped when it is None or the empty string
DateRangeErrs(from_date, to_date) ==
    IF IsSome(from_date) /\ Len(Val(from_date)) > 0
       /\ IsSome(to_date) /\ Len(Val(to_date)) > 0
    THEN LET start == Strptime(Val(from_date))
             end == Strptime(Val(to_date))
         IN  IF DateAfter(start, end) THEN {VErr("model", "value_error", 0)} ELSE {}
    ELSE {}

\* a str Enum field: the input must be one of the member values
EnumErrs(field, v, members) ==
    IF v \in Range(members) THEN {} ELSE {VErr(field, "enum", 0)}

(***************************************************************************)
(* JSON values, as response.json() returns them.  A number is held in      *)
(* hundredths (Scale); "big" is an integer too large for a float, "inf"    *)
(* and "nan" are the floats json.loads gives for 1e999 and NaN.  An object *)
(* is the sequence of its (key, value) pairs in the parser's order, keys   *)
(* distinct.  A string is a sequence of characters.                        *)
(***************************************************************************)
Scale == 10 * 10

JNull    == [t |-> "null"]
JBool(b) == [t |-> "bool", b |-> b]
JNum(h)  == [t |-> "num", h |-> h]
JInt(n)  == JNum(n * Scale)
JBig     == [t |-> "big"]
JInf     == [t |-> "inf"]
JNaN     == [t |-> "nan"]
JStr(s)  == [t |-> "str", s |-> s]
JList(l) == [t |-> "list", items |-> l]
JObj(kv) == [t |-> "obj", kv |-> kv]
KV(k, v) == [k |-> k, v |-> v]

IsDict(j) == j.t = "obj"
IsList(j) == j.t = "list"

\* key in d
HasKey(d, key) == \E i \in DOMAIN d.kv : d.kv[i].k = key

\* d[key], for a key of d
Item(d, key) == d.kv[CHOOSE i \in DOMAIN d.kv : d.kv[i].k = key].v

\* d.get(key): None when the key is absent
Get(d, key) == IF HasKey(d, key) THEN Item(d, key) ELSE JNull

\* bool(x), as `or` and `if not` test it
Truthy(j) ==
    CASE j.t = "null" -> FALSE
      [] j.t = "bool" -> j.b
      [] j.t = "num"  -> j.h # 0
      [] j.t = "str"  -> Len(j.s) > 0
      [] j.t = "list" -> Len(j.items) > 0
      [] j.t = "obj"  -> Len(j.kv) > 0
      [] OTHER        -> TRUE

RECURSIVE OrChain(_, _, _)
\* d.get(k1) or d.get(k2) or ... or default: the first truthy value, else
\* the last operand
OrChain(d, keys, default) ==
    IF Len(keys) = 0 THEN default
    ELSE IF Truthy(Get(d, Head(keys))) THEN Get(d, Head(keys))
    ELSE OrChain(d, Tail(keys), default)

\* d.get(k1) or ... or d.get(kn), with no default: the last operand is
\* d.get(kn) itself
OrGets(d, keys) ==
    OrChain(d, SubSeq(keys, 1, Len(keys) - 1), Get(d, keys[Len(keys)]))

(***************************************************************************)
(* float() and int(float()) of a JSON value.  exc = "" is no exception.    *)
(***************************************************************************)
Fin(h)  == [exc |-> "", f |-> "fin", h |-> h]
FInf    == [exc |-> "", f |-> "inf", h |-> 0]
FNaN    == [exc |-> "", f |-> "nan", h |-> 0]
FExc(e) == [exc |-> e, f |-> "", h |-> 0]

\* float(str): digits with an optional sign and an optional fraction of at
\* most two digits (what Scale can hold), "inf" and "nan"; otherwise the
\* ValueError
FloatOfStr(s) ==
    LET Split(sign, body, dot) ==
            LET ip == SubSeq(body, 1, dot - 1)
                fp == SubSeq(body, dot + 1, Len(body))
            IN  IF AllDigits(ip) /\ AllDigits(fp) /\ Len(fp) <= 2
                THEN Fin(sign * (NumVal(ip) * Scale
                                 + (IF Len(fp) = 1 THEN 10 ELSE 1) * NumVal(fp)))
                ELSE FExc("ValueError")
        Parse(sign, body, dots) ==
            IF body = <<"i","n","f">> THEN FInf
            ELSE IF body = <<"n","a","n">> THEN FNaN
            ELSE IF dots = {} THEN
                (IF AllDigits(body) THEN Fin(sign * NumVal(body) * Scale)
                 ELSE FExc("ValueError"))
            ELSE IF Cardinality(dots) = 1 THEN Split(sign, body, CHOOSE i \in dots : TRUE)
            ELSE FExc("ValueError")
        Signed(sign, body) == Parse(sign, body, {i \in DOMAIN body : body[i] = "."})
    IN  IF Len(s) > 0 /\ s[1] = "-" THEN Signed(-1, Tail(s)) ELSE Signed(1, s)

\* float(value)
Float(j) ==
    CASE j.t = "num"  -> Fin(j.h)
      [] j.t = "bool" -> Fin(IF j.b THEN Scale ELSE 0)
      [] j.t = "big"  -> FExc("OverflowError")
      [] j.t = "inf"  -> FInf
      [] j.t = "nan"  -> FNaN
      [] j.t = "str"  -> FloatOfStr(j.s)
      [] OTHER        -> FExc("TypeError")

\* truncation toward zero of h hundredths
Trunc(h) == IF h >= 0 THEN h \div Scale ELSE -((-h) \div Scale)

(***************************************************************************)
(* Text.  A text is a sequence of characters; a formatter returns          *)
(* [exc, text], exc = "" when it returned.                                 *)
(***************************************************************************)
Txt(s)  == [exc |-> "", text |-> s]
TExc(e) == [exc |-> e, text |-> <<>>]
NA == <<"n/a">>

RECURSIVE Dec(_)
\* str(n) for n >= 0
Dec(n) == IF n < 10 THEN <<Digits[n + 1]>> ELSE Dec(n \div 10) \o <<Digits[(n % 10) + 1]>>

Pad2(n) == <<Digits[(n \div 10) + 1], Digits[(n % 10) + 1]>>
Pad3(n) == <<Digits[(n \div 100) + 1]>> \o Pad2(n % 100)

RECURSIVE Grouped(_)
\* f"{n:,}" for n >= 0
Grouped(n) == IF n < 1000 THEN Dec(n) ELSE Grouped(n \div 1000) \o <<",">> \o Pad3(n % 1000)

\* str(h / Scale) of a whole number of hundredths
FormatIntPlain(h) == IF h < 0 THEN <<"-">> \o Dec((-h) \div Scale) ELSE Dec(h \div Scale)

\* f"{number:,}"
FormatInt(n) == IF n < 0 THEN <<"-">> \o Grouped(-n) ELSE Grouped(n)

\* format_count: int(float(value)); TypeError and ValueError give "n/a",
\* any other exception propagates
format_count(value) ==
    LET Of(x) ==
            IF x.exc \in {"TypeError", "ValueError"} THEN Txt(NA)
            ELSE IF x.exc # "" THEN TExc(x.exc)
            ELSE IF x.f = "nan" THEN Txt(NA)             \* int(nan): ValueError
            ELSE IF x.f = "inf" THEN TExc("OverflowError") \* int(inf)
            ELSE Txt(FormatInt(Trunc(x.h)))
    IN  Of(Float(value))

\* f"{h/Scale:.2f}" for h hundredths
Fixed2(h) ==
    IF h < 0 THEN <<"-">> \o Dec((-h) \div Scale) \o <<".">> \o Pad2((-h) % Scale)
    ELSE Dec(h \div Scale) \o <<".">> \o Pad2(h % Scale)

\* format_percentage; assume_fraction is an Optional boolean
format_percentage(value, assume_fraction) ==
    LET Of(x) ==
            LET abs == IF x.h < 0 THEN -x.h ELSE x.h
                asFraction == IF IsSome(assume_fraction) THEN Val(assume_fraction)
                              ELSE abs <= Scale
            IN  IF x.exc \in {"TypeError", "ValueError"} THEN Txt(NA)
                ELSE IF x.exc # "" THEN TExc(x.exc)
                ELSE IF x.f = "nan" THEN Txt(<<"n","a","n","%">>)
                ELSE IF x.f = "inf" THEN Txt(<<"i","n","f","%">>)
                ELSE IF asFraction
                     \* pct = number: the percentage is 100 * number, a whole
                     \* number of hundredths of a percent
                     THEN Txt(Fixed2(x.h * Scale) \o <<"%">>)
                     \* pct = number / 100: the percentage is number
                     ELSE Txt(Fixed2(x.h) \o <<"%">>)
    IN  Of(Float(value))

\* format_decimal with the default precision 2
format_decimal(value) ==
    LET Of(x) ==
            IF x.exc \in {"TypeError", "ValueError"} THEN Txt(NA)
            ELSE IF x.exc # "" THEN TExc(x.exc)
            ELSE IF x.f = "nan" THEN Txt(<<"n","a","n">>)
            ELSE IF x.f = "inf" THEN Txt(<<"i","n","f">>)
            ELSE Txt(Fixed2(x.h))
    IN  Of(Float(value))

(***************************************************************************)
(* Response helpers.                                                       *)
(***************************************************************************)
UnwrapKeys == <<"result", "data", "response">>
UnwrapDepth == 5

RECURSIVE UnwrapFrom(_, _)
\* the while loop of unwrap_response, entered with `current` and `depth`
UnwrapFrom(current, depth) ==
    IF IsDict(current) /\ depth < UnwrapDepth
    THEN LET present == {i \in DOMAIN UnwrapKeys : HasKey(current, UnwrapKeys[i])}
         IN  IF present = {} THEN current
             ELSE LET first == CHOOSE i \in present : \A j \in present : i <= j
                  IN  UnwrapFrom(Item(current, UnwrapKeys[first]), depth + 1)
    ELSE current

\* a mutated unwrap: one envelope is removed, not up to UnwrapDepth
unwrap_response_one_level(response) ==
    IF IsDict(response) /\ \E i \in DOMAIN UnwrapKeys : HasKey(response, UnwrapKeys[i])
    THEN Item(response, UnwrapKeys[CHOOSE i \in DOMAIN UnwrapKeys :
                                      /\ HasKey(response, UnwrapKeys[i])
                                      /\ \A j \in 1..(i - 1) : ~HasKey(response, UnwrapKeys[j])])
    ELSE response

unwrap_response(response) == UnwrapFrom(response, 0)

\* a mutated extract_sequence: the values of the object are not searched
\* when no candidate key holds a list
extract_sequence_named_only(data, candidate_keys) ==
    IF IsDict(data)
    THEN LET byKey == {i \in DOMAIN candidate_keys : IsList(Get(data, candidate_keys[i]))}
         IN  IF byKey # {}
             THEN Get(data, candidate_keys[CHOOSE i \in byKey : \A j \in byKey : i <= j]).items
             ELSE <<>>
    ELSE IF IsList(data) THEN data.items
    ELSE <<>>

\* extract_sequence: the list under the first candidate key that holds a
\* list, else the first list among the values, else the list itself, else []
extract_sequence(data, candidate_keys) ==
    IF IsDict(data)
    THEN LET byKey == {i \in DOMAIN candidate_keys : IsList(Get(data, candidate_keys[i]))}
             byValue == {i \in DOMAIN data.kv : IsList(data.kv[i].v)}
         IN  IF byKey # {}
             THEN Get(data, candidate_keys[CHOOSE i \in byKey : \A j \in byKey : i <= j]).items
             ELSE IF byValue # {}
             THEN data.kv[CHOOSE i \in byValue : \A j \in byValue : i <= j].v.items
             ELSE <<>>
    ELSE IF IsList(data) THEN data.items
    ELSE <<>>

(***************************************************************************)
(* Output.  The text a tool returns is the sequence of its lines; a line   *)
(* is [kind, idx, cells]: what the line is, its number (or indentation     *)
(* level) and the texts interpolated into it.                              *)
(***************************************************************************)
Line(kind, idx, cells) == [kind |-> kind, idx |-> idx, cells |-> cells]

\* str(x) of a JSON value: a str is itself, a number its digits; the repr
\* of any other value is kept as its type
Str(j) ==
    CASE j.t = "str" -> j.s
      [] j.t = "num" -> IF j.h % Scale = 0 THEN FormatIntPlain(j.h) ELSE Fixed2(j.h)
      [] OTHER       -> <<"<", j.t, ">">>

RECURSIVE JoinTexts(_, _)
\* sep.join(texts)
JoinTexts(texts, sep) ==
    IF Len(texts) = 0 THEN <<>>
    ELSE IF Len(texts) = 1 THEN texts[1]
    ELSE texts[1] \o sep \o JoinTexts(Tail(texts), sep)

\* a tool body ended: the lines it returns, or the exception it raised
Returned(lines) == [exc |-> "", lines |-> lines]
Raised(e) == [exc |-> e, lines |-> <<>>]

\* the exception of the first element that raised, "" when none did
FirstExc(rs) ==
    LET bad == {i \in DOMAIN rs : rs[i].exc # ""}
    IN  IF bad = {} THEN "" ELSE rs[CHOOSE i \in bad : \A j \in bad : i <= j].exc

\* `if validated.regions:` and the like: an Optional list that is neither
\* None nor empty; an Optional string that is neither None nor ""
Supplied(o) == IsSome(o) /\ Len(Val(o)) > 0

\* ', '.join(map(str, regions))
RegionsText(regions) == JoinTexts([i \in DOMAIN regions |-> FormatIntPlain(regions[i] * Scale)], <<", ">>)

\* ', '.join(devices)
DevicesText(devices) == JoinTexts(devices, <<", ">>)

\* the filter-echo lines shared by the tools
\* a mutated echo: the line is written whether or not the filter was given
EchoLinesAlways(kind, o, text) == <<Line(kind, 0, <<text>>)>>

EchoLines(kind, o, text) == IF Supplied(o) THEN <<Line(kind, 0, <<text>>)>> ELSE <<>>

(***************************************************************************)
(* get_top_requests, from the gateway's JSON to the text.                  *)
(***************************************************************************)
TopSequenceKeys == <<"topRequests", "TopRequests", "searchQueries", "SearchQueries",
                     "requests", "Requests", "phrases", "Phrases">>

\* one pass of the for loop: the numbered line of a query, or the
\* exception a formatter let through
TopItem(index, query) ==
    LET Numbered(query_text, count_text, share_text, growth_text, exc) ==
            IF exc # "" THEN [exc |-> exc, line |-> Line("numbered", index, <<>>)]
            ELSE [exc |-> "",
                  line |-> Line("numbered", index,
                     <<Str(query_text)>>
                     \o (IF count_text.text # NA THEN <<count_text.text \o <<" searches">>>> ELSE <<>>)
                     \o (IF share_text.text # NA THEN <<share_text.text \o <<" share">>>> ELSE <<>>)
                     \o (IF growth_text.text # NA THEN <<<<"delta ">> \o growth_text.text>> ELSE <<>>))]
        Texts(query_text, count_text, share_text, growth_text) ==
            Numbered(query_text, count_text, share_text, growth_text,
                     FirstExc(<<count_text, share_text, growth_text>>))
    IN  IF IsDict(query)
        THEN Texts(OrChain(query, <<"phrase", "Phrase", "query", "Query", "keyword", "Keyword">>,
                           JStr(<<"Result ">> \o Dec(index))),
                   format_count(OrGets(query, <<"shows", "Shows", "count", "Count",
                                                "volume", "Volume">>)),
                   format_percentage(OrGets(query, <<"share", "Share">>), None),
                   format_percentage(OrGets(query, <<"growth", "Growth", "change", "Change">>),
                                     None))
        ELSE [exc |-> "", line |-> Line("numbered", index, <<Str(query)>>)]

\* a mutated slice: every item is taken
TakeAll(seq, limit) == seq

\* queries[:limit]; limit None takes them all
Take(seq, limit) ==
    IF IsNone(limit) THEN seq
    ELSE SubSeq(seq, 1, IF Val(limit) < Len(seq) THEN Val(limit) ELSE Len(seq))

TopBody(v, json) ==
    LET Text(header_lines, items, exc) ==
            IF exc # "" THEN Raised(exc)
            ELSE Returned(header_lines \o [i \in DOMAIN items |-> items[i].line])
        Items(header_lines, items) == Text(header_lines, items, FirstExc(items))
        Shown(header_lines, shown) ==
            Items(header_lines, [i \in DOMAIN shown |-> TopItem(i, shown[i])])
        Queries(header_lines, queries) ==
            IF Len(queries) = 0
            THEN Returned(header_lines \o <<Line("no_results", 0, <<>>)>>)
            ELSE Shown(header_lines, Take(queries, v.limit))
    IN  Queries(<<Line("title", 0, <<v.phrase>>), Line("rule", 0, <<>>),
                  Line("limit", 0, IF IsSome(v.limit)
                                   THEN <<FormatIntPlain(Val(v.limit) * Scale)>>
                                   ELSE <<<<"None">>>>)>>
                \o EchoLines("regions", v.regions, IF IsSome(v.regions) THEN RegionsText(Val(v.regions)) ELSE <<>>)
                \o EchoLines("devices", v.devices, IF IsSome(v.devices) THEN DevicesText(Val(v.devices)) ELSE <<>>)
                \o <<Line("blank", 0, <<>>)>>,
                extract_sequence(unwrap_response(json), TopSequenceKeys))

(***************************************************************************)
(* get_dynamics, from the gateway's JSON to the text.                      *)
(***************************************************************************)
DynSequenceKeys == <<"dynamics", "Dynamics", "items", "Items", "trend", "Trend",
                     "data", "Data">>

DynRow(row) ==
    LET Row(date_value, count_text, share_text, exc) ==
            IF exc # "" THEN [exc |-> exc, line |-> Line("row", 0, <<>>)]
            ELSE [exc |-> "",
                  line |-> Line("row", 0, <<Str(date_value), count_text.text, share_text.text>>)]
        Texts(date_value, count_text, share_text) ==
            Row(date_value, count_text, share_text, FirstExc(<<count_text, share_text>>))
    IN  Texts(OrChain(row, <<"date", "Date", "period", "Period", "time", "Time">>,
                      JStr(<<"Unknown">>)),
              format_count(OrGets(row, <<"shows", "Shows", "count", "Count">>)),
              format_percentage(OrGets(row, <<"share", "Share", "sharePercent", "SharePercent">>),
                                None))

\* a mutated body: `if not entries` is missing, so an empty response gets
\* the table header and no row
DynBodyNoEmptyCheck(v, json) ==
    LET Text(output_lines, rows, exc) ==
            IF exc # "" THEN Raised(exc)
            ELSE Returned(output_lines \o <<Line("header", 0, <<>>), Line("rule", 0, <<>>)>>
                          \o [i \in DOMAIN rows |-> rows[i].line])
        Rows(output_lines, rows) == Text(output_lines, rows, FirstExc(rows))
        \* `continue` on a row that is not a dict
        Dicts(output_lines, dicts) ==
            Rows(output_lines, [i \in DOMAIN dicts |-> DynRow(dicts[i])])
        Entries(output_lines, entries) == Dicts(output_lines, SelectSeq(entries, IsDict))
    IN  Entries(<<Line("title", 0, <<v.phrase>>), Line("rule", 0, <<>>),
                  Line("period", 0, <<<<v.period>>>>)>>
                \o EchoLines("from", v.from_date, IF IsSome(v.from_date) THEN Val(v.from_date) ELSE <<>>)
                \o EchoLines("to", v.to_date, IF IsSome(v.to_date) THEN Val(v.to_date) ELSE <<>>)
                \o EchoLines("regions", v.regions, IF IsSome(v.regions) THEN RegionsText(Val(v.regions)) ELSE <<>>)
                \o EchoLines("devices", v.devices, IF IsSome(v.devices) THEN DevicesText(Val(v.devices)) ELSE <<>>)
                \o <<Line("blank", 0, <<>>)>>,
                extract_sequence(unwrap_response(json), DynSequenceKeys))

DynBody(v, json) ==
    LET Text(output_lines, rows, exc) ==
            IF exc # "" THEN Raised(exc)
            ELSE Returned(output_lines \o <<Line("header", 0, <<>>), Line("rule", 0, <<>>)>>
                          \o [i \in DOMAIN rows |-> rows[i].line])
        Rows(output_lines, rows) == Text(output_lines, rows, FirstExc(rows))
        \* `continue` on a row that is not a dict
        Dicts(output_lines, dicts) ==
            Rows(output_lines, [i \in DOMAIN dicts |-> DynRow(dicts[i])])
        Entries(output_lines, entries) ==
            IF Len(entries) = 0
            THEN Returned(output_lines \o <<Line("no_results", 0, <<>>)>>)
            ELSE Dicts(output_lines, SelectSeq(entries, IsDict))
    IN  Entries(<<Line("title", 0, <<v.phrase>>), Line("rule", 0, <<>>),
                  Line("period", 0, <<<<v.period>>>>)>>
                \o EchoLines("from", v.from_date, IF IsSome(v.from_date) THEN Val(v.from_date) ELSE <<>>)
                \o EchoLines("to", v.to_date, IF IsSome(v.to_date) THEN Val(v.to_date) ELSE <<>>)
                \o EchoLines("regions", v.regions, IF IsSome(v.regions) THEN RegionsText(Val(v.regions)) ELSE <<>>)
                \o EchoLines("devices", v.devices, IF IsSome(v.devices) THEN DevicesText(Val(v.devices)) ELSE <<>>)
                \o <<Line("blank", 0, <<>>)>>,
                extract_sequence(unwrap_response(json), DynSequenceKeys))

(***************************************************************************)
(* get_regions_distribution, from the gateway's JSON to the text.          *)
(***************************************************************************)
RegSequenceKeys == <<"regionsDistribution", "RegionsDistribution", "regions", "Regions",
                     "items", "Items", "data", "Data">>

\* f"{region_name[:30]:<30}": a str is sliced and padded; a number or a
\* bool is not subscriptable, a dict takes no slice and a list takes no
\* format spec, each an exception
NameCell(region_name) ==
    IF region_name.t = "str"
    THEN Txt(SubSeq(region_name.s, 1,
                    IF Len(region_name.s) < 30 THEN Len(region_name.s) ELSE 30))
    ELSE TExc("TypeError")

RegRow(item) ==
    LET Row(region_id, name_text, count_text, share_text, affinity_text, exc) ==
            IF exc # "" THEN [exc |-> exc, line |-> Line("row", 0, <<>>)]
            ELSE [exc |-> "",
                  line |-> Line("row", 0, <<Str(region_id), name_text.text, count_text.text,
                                            share_text.text, affinity_text.text>>)]
        Texts(region_id, name_text, count_text, share_text, affinity_text) ==
            Row(region_id, name_text, count_text, share_text, affinity_text,
                FirstExc(<<count_text, share_text, affinity_text, name_text>>))
    IN  Texts(OrChain(item, <<"regionId", "RegionId", "GeoId", "id">>, JStr(<<"N/A">>)),
              NameCell(OrChain(item, <<"name", "Name", "regionName", "RegionName">>,
                               JStr(<<"Unknown">>))),
              format_count(OrGets(item, <<"shows", "Shows", "count", "Count">>)),
              format_percentage(OrGets(item, <<"share", "Share", "sharePercent", "SharePercent">>),
                                None),
              format_decimal(OrGets(item, <<"affinity", "Affinity">>)))

RegBody(v, json) ==
    LET Text(output_lines, regions_data, rows, exc) ==
            IF exc # "" THEN Raised(exc)
            ELSE Returned(output_lines \o <<Line("header", 0, <<>>), Line("rule", 0, <<>>)>>
                          \o [i \in DOMAIN rows |-> rows[i].line]
                          \o (IF Len(regions_data) > REGIONS_DISTRIBUTION_OUTPUT_LIMIT
                              THEN <<Line("showing", Len(regions_data), <<>>)>>
                              ELSE <<>>))
        Rows(output_lines, regions_data, rows) ==
            Text(output_lines, regions_data, rows, FirstExc(rows))
        \* `continue` on an item that is not a dict
        Dicts(output_lines, regions_data, dicts) ==
            Rows(output_lines, regions_data, [i \in DOMAIN dicts |-> RegRow(dicts[i])])
        Regions(output_lines, regions_data) ==
            IF Len(regions_data) = 0
            THEN Returned(output_lines \o <<Line("no_results", 0, <<>>)>>)
            ELSE Dicts(output_lines, regions_data,
                       SelectSeq(Take(regions_data, Some(REGIONS_DISTRIBUTION_OUTPUT_LIMIT)),
                                 IsDict))
    IN  Regions(<<Line("title", 0, <<v.phrase>>), Line("rule", 0, <<>>),
                  Line("region_type", 0, <<<<v.region_type>>>>)>>
                \o EchoLines("devices", v.devices, IF IsSome(v.devices) THEN DevicesText(Val(v.devices)) ELSE <<>>)
                \o <<Line("blank", 0, <<>>)>>,
                extract_sequence(unwrap_response(json), RegSequenceKeys))

(***************************************************************************)
(* get_regions_tree, from the gateway's JSON to the text.                  *)
(***************************************************************************)
\* `for child in children`: a list gives its items, a str its characters,
\* a dict its keys; any other truthy value is not iterable
Iterate(children) ==
    CASE children.t = "list" -> [exc |-> "", items |-> children.items]
      [] children.t = "str"  ->
            [exc |-> "", items |-> [i \in DOMAIN children.s |-> JStr(<<children.s[i]>>)]]
      [] children.t = "obj"  ->
            [exc |-> "", items |-> [i \in DOMAIN children.kv |-> JStr(<<children.kv[i].k>>)]]
      [] OTHER               -> [exc |-> "TypeError", items |-> <<>>]

\* node.get("children") or node.get("Children") or []
Children(node) == OrChain(node, <<"children", "Children">>, JList(<<>>))

RECURSIVE SumCounts(_)
SumCounts(rs) == IF Len(rs) = 0 THEN 0 ELSE Head(rs).n + SumCounts(Tail(rs))

\* a mutated count: the children of a node are not counted
count_regions_flat(node) ==
    IF IsDict(node) THEN [exc |-> "", n |-> 1]
    ELSE IF IsList(node)
    THEN [exc |-> "", n |-> Cardinality({i \in DOMAIN node.items : IsDict(node.items[i])})]
    ELSE [exc |-> "", n |-> 0]

RECURSIVE count_regions(_)
\* [exc, n]
count_regions(node) ==
    IF IsDict(node)
    THEN LET it == Iterate(Children(node))
             sub == [i \in DOMAIN it.items |-> count_regions(it.items[i])]
         IN  IF it.exc # "" THEN [exc |-> it.exc, n |-> 0]
             ELSE IF FirstExc(sub) # "" THEN [exc |-> FirstExc(sub), n |-> 0]
             ELSE [exc |-> "", n |-> 1 + SumCounts(sub)]
    ELSE IF IsList(node)
    THEN LET sub == [i \in DOMAIN node.items |-> count_regions(node.items[i])]
         IN  IF FirstExc(sub) # "" THEN [exc |-> FirstExc(sub), n |-> 0]
             ELSE [exc |-> "", n |-> SumCounts(sub)]
    ELSE [exc |-> "", n |-> 0]

RECURSIVE ConcatLines(_)
ConcatLines(rs) == IF Len(rs) = 0 THEN <<>> ELSE Head(rs).lines \o ConcatLines(Tail(rs))

RECURSIVE format_tree(_, _)
\* [exc, lines]
format_tree(node, level) ==
    IF IsDict(node)
    THEN LET name == OrChain(node, <<"name", "Name">>, JStr(<<"Unknown region">>))
             region_id == OrGets(node, <<"id", "GeoRegionId", "RegionId">>)
             id_suffix == IF region_id # JNull THEN <<Str(region_id)>> ELSE <<>>
             it == Iterate(Children(node))
             sub == [i \in DOMAIN it.items |-> format_tree(it.items[i], level + 1)]
         IN  IF it.exc # "" THEN Raised(it.exc)
             ELSE IF FirstExc(sub) # "" THEN Raised(FirstExc(sub))
             ELSE Returned(<<Line("bullet", level, <<Str(name)>> \o id_suffix)>>
                           \o ConcatLines(sub))
    ELSE IF IsList(node)
    THEN LET sub == [i \in DOMAIN node.items |-> format_tree(node.items[i], level)]
         IN  IF FirstExc(sub) # "" THEN Raised(FirstExc(sub))
             ELSE Returned(ConcatLines(sub))
    ELSE Returned(<<>>)

TreeKeys == <<"regions", "Regions", "tree", "Tree">>

TreeBody(json) ==
    LET data == unwrap_response(json)
        present == IF IsDict(data) THEN {i \in DOMAIN TreeKeys : HasKey(data, TreeKeys[i])}
                   ELSE {}
        regions == IF present = {} THEN data
                   ELSE Item(data, TreeKeys[CHOOSE i \in present : \A j \in present : i <= j])
        total_regions == count_regions(regions)
        tree == format_tree(regions, 0)
        tree_lines == IF Len(tree.lines) = 0 THEN <<Line("no_results", 0, <<>>)>>
                      ELSE tree.lines
    IN  IF total_regions.exc # "" THEN Raised(total_regions.exc)
        ELSE IF tree.exc # "" THEN Raised(tree.exc)
        ELSE Returned(<<Line("title", 0, <<>>), Line("rule", 0, <<>>),
                        Line("total", total_regions.n, <<>>), Line("blank", 0, <<>>)>>
                      \o tree_lines)

(***************************************************************************)
(* The pydantic models.  A model is [ok, errs] and the validated fields;   *)
(* ok = FALSE stands for the ValidationError the constructor raises.  The  *)
(* after-validator of DynamicsInput runs only when every field validated.  *)
(***************************************************************************)
Model(errs, phrase, limit, regions, devices, period, from_date, to_date, region_type) ==
    [ok |-> errs = {}, errs |-> errs, phrase |-> phrase, limit |-> limit,
     regions |-> regions, devices |-> devices, period |-> period,
     from_date |-> from_date, to_date |-> to_date, region_type |-> region_type]

NoModel == Model({}, <<>>, None, None, None, "", None, None, "")

TopRequestsInput(phrase, limit, regions, devices) ==
    LET dev == TopValidateDevices(devices)
        errs == PhraseErrs(phrase) \cup LimitErrs(limit) \cup DevicesErrs(dev)
    IN  Model(errs, phrase, limit, regions, dev.value, "", None, None, "")

DynamicsInput(phrase, period, from_date, to_date, regions, devices) ==
    LET dev == DynValidateDevices(devices)
        fieldErrs == PhraseErrs(phrase) \cup EnumErrs("period", period, VALID_PERIODS)
                     \cup DateFormatErrs("from_date", from_date)
                     \cup DateFormatErrs("to_date", to_date) \cup DevicesErrs(dev)
        errs == IF fieldErrs # {} THEN fieldErrs ELSE DateRangeErrs(from_date, to_date)
    IN  Model(errs, phrase, None, regions, dev.value, period, from_date, to_date, "")

RegionsDistributionInput(phrase, region_type, devices) ==
    LET dev == RegValidateDevices(devices)
        errs == PhraseErrs(phrase) \cup EnumErrs("region_type", region_type, VALID_REGION_TYPES)
                \cup DevicesErrs(dev)
    IN  Model(errs, phrase, None, None, dev.value, "", None, None, region_type)

(***************************************************************************)
(* The payload of a tool: the sequence of its (key, value) pairs, a value  *)
(* being an Optional (None is a null).                                     *)
(***************************************************************************)
PayloadIf(cond, key, value) == IF cond THEN <<KV(key, value)>> ELSE <<>>

TopPayload(v) ==
    <<KV("phrase", Some(v.phrase)), KV("limit", v.limit)>>
    \o PayloadIf(Supplied(v.regions), "regions", v.regions)
    \o PayloadIf(Supplied(v.devices), "devices", v.devices)

DynPayload(v) ==
    <<KV("phrase", Some(v.phrase)), KV("period", Some(v.period))>>
    \o PayloadIf(Supplied(v.from_date), "fromDate", v.from_date)
    \o PayloadIf(Supplied(v.to_date), "toDate", v.to_date)
    \o PayloadIf(Supplied(v.regions), "regions", v.regions)
    \o PayloadIf(Supplied(v.devices), "devices", v.devices)

RegPayload(v) ==
    <<KV("phrase", Some(v.phrase)), KV("regionType", Some(v.region_type))>>
    \o PayloadIf(Supplied(v.devices), "devices", v.devices)

(***************************************************************************)
(* Failures.  Err is the message of a ToolError: kind names the template,  *)
(* num the number it interpolates (the status, the timeout), cause the     *)
(* exception it wraps and errs the validation errors it lists.             *)
(***************************************************************************)
Err(kind, num, cause, errs) == [kind |-> kind, num |-> num, cause |-> cause, errs |-> errs]
NoErr == Err("", 0, "", {})

\* how a call ended: kind is "return" or "raise"; exc the exception type
\* raised, err its message, json what the gateway returned, lines what the
\* tool returned
Ended(kind, exc, err, json, lines) ==
    [kind |-> kind, exc |-> exc, err |-> err, json |-> json, lines |-> lines]
RaiseTool(err) == Ended("raise", "ToolError", err, JNull, <<>>)
ReturnJson(json) == Ended("return", "", NoErr, json, <<>>)
ReturnText(lines) == Ended("return", "", NoErr, JNull, lines)

\* the classes an exception of the transport is an instance of (httpx)
Bases(exc) ==
    CASE exc \in {"ReadTimeout", "ConnectTimeout"} ->
            {"TimeoutException", "TransportError", "HTTPError", "Exception"}
      [] exc \in {"ConnectError", "ReadError"} ->
            {"NetworkError", "TransportError", "HTTPError", "Exception"}
      [] exc = "RemoteProtocolError" -> {"TransportError", "HTTPError", "Exception"}
      [] exc = "TooManyRedirects" -> {"HTTPError", "Exception"}
      [] exc = "ToolError" -> {"ToolError", "Exception"}
      [] OTHER -> {"Exception"}

(***************************************************************************)
(* make_wordstat_request.                                                  *)
(***************************************************************************)
POST == <<"P","O","S","T">>
GET  == <<"G","E","T">>

RECURSIVE LStripSlash(_)
\* endpoint.lstrip('/')
LStripSlash(s) == IF Len(s) > 0 /\ s[1] = "/" THEN LStripSlash(Tail(s)) ELSE s

\* the url, as the path appended to WORDSTAT_BASE_URL
Url(endpoint) == IF Len(endpoint) > 0 THEN <<"/">> \o LStripSlash(endpoint) ELSE <<>>

\* mutated headers: the Authorization header carries no token
HeadersNoToken == [ContentType |-> "application/json",
                   Authorization |-> <<"Bearer ", "">>,
                   Accept |-> "application/json"]

\* the headers of lines 324-329
Headers == [ContentType |-> "application/json",
            Authorization |-> <<"Bearer ", config.OAUTH_TOKEN>>,
            Accept |-> "application/json"]

\* a mutated request: the payload goes into the JSON body whatever the method
HttpRequestAlwaysJson(endpoint, payload, method) ==
    [verb |-> Upper(method), url |-> Url(endpoint), headers |-> Headers,
     json |-> Some(payload), params |-> None]

\* the request client.post(url, json=payload) or client.get(url,
\* params=payload) sends
HttpRequest(endpoint, payload, method) ==
    [verb |-> Upper(method), url |-> Url(endpoint), headers |-> Headers,
     json |-> IF Upper(method) = POST THEN Some(payload) ELSE None,
     params |-> IF Upper(method) = GET THEN Some(payload) ELSE None]

\* a mutated dispatch: the GET branch is an `if`, not an `elif`, and the
\* POST falls through to a second request
DispatchCountFallThrough(method) ==
    IF Upper(method) = POST THEN 2
    ELSE IF Upper(method) = GET THEN 1
    ELSE 0

\* the number of requests one call dispatches, by the branch of the method
DispatchCount(method) ==
    IF Upper(method) = POST THEN 1
    ELSE IF Upper(method) = GET THEN 1
    ELSE 0

\* a mutated chain: every 2xx status is taken as success
OnResponseAny2xx(status, parses, json) ==
    IF status >= 200 /\ status < 300
    THEN (IF parses THEN ReturnJson(json)
          ELSE RaiseTool(Err("ParseFailed", 0, "JSONDecodeError", {})))
    ELSE IF status = 401 THEN RaiseTool(Err("AuthenticationFailed", 0, "", {}))
    ELSE IF status = 403 THEN RaiseTool(Err("AccessForbidden", 0, "", {}))
    ELSE IF status = 429 THEN RaiseTool(Err("RateLimitExceeded", 0, "", {}))
    ELSE IF status >= 500 THEN RaiseTool(Err("ServerError", status, "", {}))
    ELSE RaiseTool(Err("RequestFailed", status, "", {}))

\* the status-code chain on a response
OnResponse(status, parses, json) ==
    IF status = 200
    THEN (IF parses THEN ReturnJson(json)
          ELSE RaiseTool(Err("ParseFailed", 0, "JSONDecodeError", {})))
    ELSE IF status = 401 THEN RaiseTool(Err("AuthenticationFailed", 0, "", {}))
    ELSE IF status = 403 THEN RaiseTool(Err("AccessForbidden", 0, "", {}))
    ELSE IF status = 429 THEN RaiseTool(Err("RateLimitExceeded", 0, "", {}))
    ELSE IF status >= 500 THEN RaiseTool(Err("ServerError", status, "", {}))
    ELSE RaiseTool(Err("RequestFailed", status, "", {}))

\* the try block after the request: o is what the transport gave back, a
\* response or an exception raised in client.post/get
TryBlock(o) ==
    IF o.exc # "" THEN Ended("raise", o.exc, NoErr, JNull, <<>>)
    ELSE OnResponse(o.status, o.parses, o.json)

\* mutated except clauses: the final `except Exception` is missing
GatewayExceptNoCatchAll(r) ==
    IF r.kind = "return" THEN r
    ELSE IF "TimeoutException" \in Bases(r.exc)
    THEN RaiseTool(Err("TimedOut", config.REQUEST_TIMEOUT_SECONDS, "", {}))
    ELSE IF "NetworkError" \in Bases(r.exc) THEN RaiseTool(Err("NetworkError", 0, r.exc, {}))
    ELSE IF "HTTPError" \in Bases(r.exc) THEN RaiseTool(Err("HTTPError", 0, r.exc, {}))
    ELSE r

\* the except clauses of make_wordstat_request, in their order
GatewayExcept(r) ==
    IF r.kind = "return" THEN r
    ELSE IF "TimeoutException" \in Bases(r.exc)
    THEN RaiseTool(Err("TimedOut", config.REQUEST_TIMEOUT_SECONDS, "", {}))
    ELSE IF "NetworkError" \in Bases(r.exc) THEN RaiseTool(Err("NetworkError", 0, r.exc, {}))
    ELSE IF "HTTPError" \in Bases(r.exc) THEN RaiseTool(Err("HTTPError", 0, r.exc, {}))
    ELSE IF "ToolError" \in Bases(r.exc) THEN r
    ELSE RaiseTool(Err("UnexpectedError", 0, r.exc, {}))

\* a mutated entry: the token is not checked
GatewayBeforeNoTokenCheck(method) ==
    IF DispatchCount(method) = 0
    THEN Some(GatewayExcept(RaiseTool(Err("UnsupportedMethod", 0, "", {}))))
    ELSE None

\* the part of make_wordstat_request before the request: None when the
\* request is dispatched, else the ToolError raised
GatewayBefore(method) ==
    IF config.OAUTH_TOKEN = "" THEN Some(RaiseTool(Err("TokenNotConfigured", 0, "", {})))
    ELSE IF DispatchCount(method) = 0
         THEN Some(GatewayExcept(RaiseTool(Err("UnsupportedMethod", 0, "", {}))))
    ELSE None

\* the part of make_wordstat_request after the request
GatewayAfter(o) == GatewayExcept(TryBlock(o))

(***************************************************************************)
(* The tools: the try block around the body, and its except clauses.       *)
(***************************************************************************)
Tools == {"get_regions_tree", "get_top_requests", "get_dynamics",
          "get_regions_distribution"}

\* mutated except clauses: `except ToolError: raise` is missing, so the
\* gateway's failure is wrapped like any other exception
ToolExceptWrapAll(exc, err, errs) ==
    RaiseTool(Err("FailedToRetrieve", 0, exc, errs))

\* except ToolError: raise; except Exception as exc: raise ToolError(
\* f"Failed to retrieve ...: {exc}")
ToolExcept(exc, err, errs) ==
    IF "ToolError" \in Bases(exc) THEN RaiseTool(err)
    ELSE RaiseTool(Err("FailedToRetrieve", 0, exc, errs))

\* the model a tool builds from its arguments
Validate(c) ==
    CASE c.tool = "get_top_requests" ->
            TopRequestsInput(c.phrase, c.limit, c.regions, c.devices)
      [] c.tool = "get_dynamics" ->
            DynamicsInput(c.phrase, c.period, c.from_date, c.to_date, c.regions, c.devices)
      [] c.tool = "get_regions_distribution" ->
            RegionsDistributionInput(c.phrase, c.region_type, c.devices)
      [] OTHER -> NoModel

\* the arguments of the tool's call of make_wordstat_request
GatewayArgs(c, v) ==
    CASE c.tool = "get_top_requests" ->
            [endpoint |-> <<"v1/getTopRequests">>, payload |-> TopPayload(v), method |-> POST]
      [] c.tool = "get_dynamics" ->
            [endpoint |-> <<"v1/getDynamics">>, payload |-> DynPayload(v), method |-> POST]
      [] c.tool = "get_regions_distribution" ->
            [endpoint |-> <<"v1/getRegionsDistribution">>, payload |-> RegPayload(v),
             method |-> POST]
      [] c.tool = "get_regions_tree" ->
            [endpoint |-> <<"v1/getRegionsTree">>, payload |-> <<>>, method |-> GET]
      [] OTHER ->
            [endpoint |-> c.endpoint, payload |-> c.payload, method |-> c.method]

\* the rest of the tool's try block, once the gateway returned json
Body(c, v, json) ==
    CASE c.tool = "get_top_requests" -> TopBody(v, json)
      [] c.tool = "get_dynamics" -> DynBody(v, json)
      [] c.tool = "get_regions_distribution" -> RegBody(v, json)
      [] OTHER -> TreeBody(json)

\* a mutated tool: the text is formatted from the devices as the caller
\* spelled them, not from the validated model
FinishFromArguments(c, v, g) ==
    LET Text(b) == IF b.exc # "" THEN ToolExcept(b.exc, NoErr, {}) ELSE ReturnText(b.lines)
    IN  IF c.tool \notin Tools THEN g
        ELSE IF g.kind = "raise" THEN ToolExcept(g.exc, g.err, {})
        ELSE Text(Body(c, [v EXCEPT !.devices = c.devices], g.json))

\* how the caller of make_wordstat_request ends once the gateway ended as g
Finish(c, v, g) ==
    LET Text(b) == IF b.exc # "" THEN ToolExcept(b.exc, NoErr, {}) ELSE ReturnText(b.lines)
    IN  IF c.tool \notin Tools THEN g
        ELSE IF g.kind = "raise" THEN ToolExcept(g.exc, g.err, {})
        ELSE Text(Body(c, v, g.json))

(***************************************************************************)
(* The inputs of the model: the calls the hosting runtime makes and what   *)
(* the upstream gives back.                                                *)
(***************************************************************************)
\* longest list of items in an upstream response
MaxItems == 2

Call(tool, phrase, limit, regions, devices, period, from_date, to_date, region_type, endpoint, payload, method) ==
    [tool |-> tool, phrase |-> phrase, limit |-> limit, regions |-> regions,
     devices |-> devices, period |-> period, from_date |-> from_date,
     to_date |-> to_date, region_type |-> region_type, endpoint |-> endpoint,
     payload |-> payload, method |-> method]

NoCall == Call("", <<>>, None, None, None, "", None, None, "", <<>>, <<>>, <<>>)

TopCall(phrase, limit, regions, devices) ==
    Call("get_top_requests", phrase, limit, regions, devices, "", None, None, "",
         <<>>, <<>>, <<>>)
DynCall(phrase, period, from_date, to_date, regions, devices) ==
    Call("get_dynamics", phrase, None, regions, devices, period, from_date, to_date, "",
         <<>>, <<>>, <<>>)
RegCall(phrase, region_type, devices) ==
    Call("get_regions_distribution", phrase, None, None, devices, "", None, None,
         region_type, <<>>, <<>>, <<>>)
TreeCall == Call("get_regions_tree", <<>>, None, None, None, "", None, None, "",
                 <<>>, <<>>, <<>>)
GatewayCall(endpoint, payload, method) ==
    Call("make_wordstat_request", <<>>, None, None, None, "", None, None, "",
         endpoint, payload, method)

iphone == <<"i","p","h","o","n","e">>
Phrases == {<<>>, <<" ">>, iphone}

DeviceTokens == {<<"d","e","s","k","t","o","p">>, <<"M","o","b","i","l","e">>, ALL,
                 <<"p","h","o","n","e">>}
DeviceLists == {None} \cup {Some(l) : l \in SeqsUpTo(DeviceTokens, MaxDevices)}
FewDeviceLists == {None, Some(<<<<"M","o","b","i","l","e">>>>), Some(<<<<"p","h","o","n","e">>>>)}

RegionLists == {None, Some(<<>>), Some(<<213, 2>>)}

LimitInputs == {None} \cup {Some(l) : l \in (1 - LimitSlack)..(MAX_TOP_REQUESTS_LIMIT + LimitSlack)}
FewLimits == {None, Some(0), Some(1), Some(2), Some(MAX_TOP_REQUESTS_LIMIT + 1)}

D_2022_12_31 == <<"2","0","2","2","-","1","2","-","3","1">>
D_2023_01_31 == <<"2","0","2","3","-","0","1","-","3","1">>
D_2023_02_01 == <<"2","0","2","3","-","0","2","-","0","1">>
D_2023_2_1   == <<"2","0","2","3","-","2","-","1">>
D_2023_02_30 == <<"2","0","2","3","-","0","2","-","3","0">>
D_slashes    == <<"2","0","2","3","/","0","1","/","3","1">>
DateInputs == {None, Some(<<>>), Some(D_2022_12_31), Some(D_2023_01_31), Some(D_2023_02_01),
               Some(D_2023_2_1), Some(D_2023_02_30), Some(D_slashes)}

PeriodInputs == {"DAILY", "WEEKLY", "MONTHLY", "monthly", "YEARLY"}
RegionTypeInputs == {"COUNTRY", "REGION", "CITY", "city", "DISTRICT"}

TopCalls ==
    {TopCall(iphone, l, None, None) : l \in LimitInputs}
    \cup {TopCall(iphone, Some(DEFAULT_TOP_REQUESTS_LIMIT), None, d) : d \in DeviceLists}
    \cup {TopCall(p, l, r, d) : p \in Phrases, l \in FewLimits, r \in RegionLists,
                                d \in FewDeviceLists}

DynCalls ==
    {DynCall(iphone, "MONTHLY", f, t, None, None) : f \in DateInputs, t \in DateInputs}
    \cup {DynCall(iphone, "MONTHLY", None, None, None, d) : d \in DeviceLists}
    \cup {DynCall(p, q, f, t, r, d) :
            p \in Phrases, q \in PeriodInputs, f \in {None, Some(D_2023_02_01)},
            t \in {None, Some(D_2023_01_31)}, r \in {None, Some(<<213, 2>>)},
            d \in {None, Some(<<<<"M","o","b","i","l","e">>>>)}}

RegCalls ==
    {RegCall(iphone, "REGION", d) : d \in DeviceLists}
    \cup {RegCall(p, q, d) : p \in Phrases, q \in RegionTypeInputs, d \in FewDeviceLists}

Methods == {POST, GET, <<"p","o","s","t">>, <<"G","e","t">>, <<"P","U","T">>, <<>>}
Endpoints == {<<>>, <<"v1/x">>, <<"/","/","v1/x">>}

GatewayCalls ==
    {GatewayCall(e, <<KV("test", Some(<<"payload">>))>>, m) : e \in Endpoints, m \in Methods}

Calls == TopCalls \cup DynCalls \cup RegCalls \cup {TreeCall} \cup GatewayCalls

(***************************************************************************)
(* Upstream responses.                                                     *)
(***************************************************************************)
S(x) == JStr(<<x>>)

TopItemPool ==
    {JObj(<<KV("phrase", S("buy")), KV("shows", JInt(1234567)), KV("share", JNum(25))>>),
     JObj(<<KV("Phrase", S("rent")), KV("shows", JInt(0)), KV("Shows", JStr(<<"1","2">>))>>),
     JObj(<<KV("keyword", S("huge")), KV("count", JInf)>>),
     S("plain")}

DynItemPool ==
    {JObj(<<KV("date", S("2023-01")), KV("shows", JInt(1500)), KV("share", JInt(25))>>),
     JObj(<<KV("Period", S("Feb")), KV("count", JNull), KV("sharePercent", S("abc"))>>),
     JObj(<<KV("date", S("2023-03")), KV("shows", JBig)>>),
     JInt(7)}

RegItemPool ==
    {JObj(<<KV("regionId", JInt(213)), KV("name", S("Moscow")), KV("shows", JInt(1234567)),
            KV("share", JNum(25)), KV("affinity", JNum(150))>>),
     JObj(<<KV("id", JInt(2)), KV("Name", JNull), KV("RegionName", S("SPb")),
            KV("count", JStr(<<"1","2">>))>>),
     JObj(<<KV("regionId", JInt(1)), KV("name", JInt(5))>>),
     JNull}

Leaf(name, id) == JObj(<<KV("name", S(name)), KV("id", JInt(id))>>)

TreeItemPool ==
    {Leaf("Moscow", 213),
     JObj(<<KV("name", S("Russia")), KV("id", JInt(225)),
            KV("children", JList(<<Leaf("Moscow", 213),
                                   JObj(<<KV("Name", S("Ural")),
                                          KV("Children", JList(<<Leaf("Perm", 50)>>))>>)>>))>>),
     JObj(<<KV("name", S("Broken")), KV("children", JInt(1))>>),
     JObj(<<KV("GeoRegionId", JInt(3)), KV("Children", JStr(<<"a","b">>))>>)}

\* the responses drawn for a tool: its item lists in an envelope, bare, and
\* behind an unlisted key; and values that hold no list at all
BodiesOf(pool, key) ==
    {JObj(<<KV("result", JObj(<<KV(key, JList(l))>>))>>) : l \in SeqsUpTo(pool, MaxItems)}
    \cup {JList(l) : l \in SeqsUpTo(pool, 1)}
    \cup {JObj(<<KV("foo", S("bar")), KV("other", JList(l))>>) : l \in SeqsUpTo(pool, 1)}
    \cup {JNull, JObj(<<>>), S("text"), JInt(3),
          JObj(<<KV("data", JObj(<<KV("response", JObj(<<KV("x", JInt(1))>>))>>))>>)}

LongListSlack == 2

\* a regions response of n items numbered in upstream order; the item at
\* position hole is not an object
LongRegions(n, hole) ==
    JObj(<<KV("regions",
              JList([i \in 1..n |->
                       IF i = hole THEN JNull
                       ELSE JObj(<<KV("regionId", JInt(i)), KV("name", S("region")),
                                  KV("count", JInt(i))>>)]))>>)

\* responses about as long as the output limit
LongBodies ==
    {LongRegions(n, hole) :
        n \in (REGIONS_DISTRIBUTION_OUTPUT_LIMIT - LongListSlack)
                ..(REGIONS_DISTRIBUTION_OUTPUT_LIMIT + LongListSlack),
        hole \in {0, 1, REGIONS_DISTRIBUTION_OUTPUT_LIMIT + 1}}

Bodies(tool) ==
    CASE tool = "get_top_requests" -> BodiesOf(TopItemPool, "topRequests")
      [] tool = "get_dynamics" -> BodiesOf(DynItemPool, "Dynamics")
      [] tool = "get_regions_distribution" -> BodiesOf(RegItemPool, "regions") \cup LongBodies
      [] tool = "get_regions_tree" -> BodiesOf(TreeItemPool, "Regions")
      [] OTHER -> {JNull, JObj(<<KV("result", JList(<<JInt(1)>>))>>)}

Statuses == {100, 200, 201, 204, 301, 400, 401, 403, 404, 429, 499, 500, 503}

TransportExceptions == {"ReadTimeout", "ConnectTimeout", "ConnectError", "RemoteProtocolError",
                        "TooManyRedirects", "InvalidURL", "RuntimeError"}

Response(status, parses, json) ==
    [exc |-> "", status |-> status, parses |-> parses, json |-> json]
Failure(exc) == [exc |-> exc, status |-> 0, parses |-> FALSE, json |-> JNull]

ErrorBody == JObj(<<KV("error", S("message"))>>)

Outcomes(tool) ==
    {Response(200, TRUE, j) : j \in Bodies(tool)}
    \cup {Response(st, FALSE, JNull) : st \in Statuses}
    \cup {Response(st, TRUE, ErrorBody) : st \in {201, 401, 404, 500}}
    \cup {Failure(e) : e \in TransportExceptions}

(***************************************************************************)
(* A helper applied on its own: fn names it, arg is the value it is given, *)
(* keys its candidate keys (extract_sequence), hint its assume_fraction    *)
(* (format_percentage) and out what it returned.                           *)
(***************************************************************************)
Applied(fn, arg, keys, hint, out) ==
    [fn |-> fn, arg |-> arg, keys |-> keys, hint |-> hint, out |-> out]
NoHelper == Applied("", JNull, <<>>, None, JNull)

(***************************************************************************)
(* Config.  The environment holds YANDEX_OAUTH_TOKEN (an Optional string)  *)
(* and REQUEST_TIMEOUT (an Optional text); the class body reads them when  *)
(* the module is imported.  A duration is [f, h]: f = "fin" and h in       *)
(* hundredths of a millisecond, or f = "inf".                              *)
(***************************************************************************)
Env(token, timeout) == [YANDEX_OAUTH_TOKEN |-> token, REQUEST_TIMEOUT |-> timeout]

\* os.getenv(name, default)
Getenv(o, default) == IF IsSome(o) THEN Val(o) ELSE default

Seconds(n) == [f |-> "fin", h |-> n * 1000 * Scale]
Forever == [f |-> "inf", h |-> 0]

\* max(1.0, x): x when x > 1.0, which a NaN never is
Max1(x) ==
    IF x.f = "inf" THEN Forever
    ELSE IF x.f = "fin" /\ x.h > Seconds(1).h THEN [f |-> "fin", h |-> x.h]
    ELSE Seconds(1)

\* REQUEST_TIMEOUT_SECONDS: max(1.0, float(raw) / 1000.0), or 30.0 when
\* float(raw) raises the ValueError
RequestTimeoutSeconds(raw) ==
    LET Of(x) == IF x.exc # "" THEN Seconds(30) ELSE Max1(x)
    IN  Of(FloatOfStr(Getenv(raw, <<"3","0","0","0","0">>)))

\* the class attributes after the import
Config(env) ==
    [OAUTH_TOKEN |-> Getenv(env.YANDEX_OAUTH_TOKEN, ""),
     REQUEST_TIMEOUT_SECONDS |-> RequestTimeoutSeconds(env.REQUEST_TIMEOUT)]

\* Config.validate: the exception it raises, "" when it returns
validate(cfg) == IF cfg.OAUTH_TOKEN = "" THEN "ValueError" ELSE ""

\* the classes of the exceptions main() tells apart
MainBases(exc) ==
    CASE exc = "ValueError"        -> {"ValueError", "Exception", "BaseException"}
      [] exc = "RuntimeError"      -> {"RuntimeError", "Exception", "BaseException"}
      [] exc = "KeyboardInterrupt" -> {"KeyboardInterrupt", "BaseException"}
      [] exc = "CancelledError"    -> {"CancelledError", "BaseException"}
      [] OTHER                     -> {}

\* mutated except clauses: the KeyboardInterrupt clause is missing and the
\* interrupt leaves main() as an uncaught exception
MainExceptNoInterrupt(exc) ==
    IF exc = "" THEN 0
    ELSE IF "ValueError" \in MainBases(exc) THEN 1
    ELSE IF "Exception" \in MainBases(exc) THEN 1
    ELSE 1

\* the exit status main() ends the process with: its except clauses in
\* their order; main() returning ends the process with 0, an exception no
\* clause catches ends it with 1
MainExcept(exc) ==
    IF exc = "" THEN 0
    ELSE IF "ValueError" \in MainBases(exc) THEN 1
    ELSE IF "KeyboardInterrupt" \in MainBases(exc) THEN 0
    ELSE IF "Exception" \in MainBases(exc) THEN 1
    ELSE 1

\* the process: pc is where it is ("start" before the import, "main" at the
\* entry of main(), "running" in mcp.run, "exited"), started whether
\* mcp.run was called, exc what ended the try block of main() and status
\* the exit status
Process(env, at, started, exc, status) ==
    [env |-> env, pc |-> at, started |-> started, exc |-> exc, status |-> status]

NoEnv == Env(None, None)
\* the module was imported and main() is not followed
NoProcess == Process(NoEnv, "imported", FALSE, "", None)

(***************************************************************************)
(* Concurrent invocations.  The runtime runs one task per invocation; the  *)
(* arguments, the validated model and the payload are locals of the        *)
(* coroutine, so each task has a frame of its own.  A frame also counts    *)
(* the invocations the task ran before (runs).                             *)
(***************************************************************************)
MaxRuns == 1

Tasks == {1, 2}

Frame(at, c, v, req, n, up, g, res, runs) ==
    [pc |-> at, call |-> c, validated |-> v, request |-> req, httpCount |-> n,
     upstream |-> up, gateway |-> g, result |-> res, runs |-> runs]

IdleFrame(runs) == Frame("idle", NoCall, NoModel, None, 0, None, None, None, runs)

NoTasks == [t \in Tasks |-> IdleFrame(0)]

\* mutated locals: the arguments and the validated model are kept in
\* module globals, which the invocation suspended last has overwritten
LocalsInGlobals(ts, t) ==
    IF \E u \in DOMAIN ts : u # t /\ ts[u].pc = "awaiting"
    THEN ts[CHOOSE u \in DOMAIN ts : u # t /\ ts[u].pc = "awaiting"]
    ELSE ts[t]

\* the locals invocation t reads when it is resumed after the request
Locals(ts, t) == ts[t]

(***************************************************************************)
(* The state machine.                                                      *)
(***************************************************************************)
ServingEnvs == {Env(None, None), Env(Some("test-token"), None),
                Env(Some("test-token"), Some(<<"5","0","0">>))}

Configs == {Config(e) : e \in ServingEnvs}

Init ==
    /\ config \in Configs
    /\ pc = "idle"
    /\ call = NoCall
    /\ validated = NoModel
    /\ request = None
    /\ httpCount = 0
    /\ upstream = None
    /\ gateway = None
    /\ result = None
    /\ helper = NoHelper
    /\ process = NoProcess
    /\ tasks = NoTasks

\* a tool (or make_wordstat_request itself) is called and runs to its
\* first suspension: validation, the payload, the token check, the
\* dispatch of the request; or to its end when one of these raises
Invoke(c) ==
    /\ pc = "idle"
    /\ LET v == Validate(c)
           a == GatewayArgs(c, v)
           g == GatewayBefore(a.method)
       IN  /\ call' = c
           /\ validated' = v
           /\ upstream' = None
           /\ IF ~v.ok
              THEN /\ result' = Some(ToolExcept("ValidationError", NoErr, v.errs))
                   /\ gateway' = None
                   /\ UNCHANGED <<request, httpCount>>
                   /\ pc' = "done"
              ELSE IF IsSome(g)
              THEN /\ gateway' = g
                   /\ result' = Some(Finish(c, v, Val(g)))
                   /\ UNCHANGED <<request, httpCount>>
                   /\ pc' = "done"
              ELSE /\ request' = Some(HttpRequest(a.endpoint, a.payload, a.method))
                   /\ httpCount' = httpCount + DispatchCount(a.method)
                   /\ UNCHANGED <<gateway, result>>
                   /\ pc' = "awaiting"
    /\ UNCHANGED <<config, helper, process, tasks>>

\* the request ends: the gateway maps the outcome, the tool normalises and
\* formats, and the call ends
Respond(o) ==
    /\ pc = "awaiting"
    /\ upstream' = Some(o)
    /\ gateway' = Some(GatewayAfter(o))
    /\ result' = Some(Finish(call, validated, GatewayAfter(o)))
    /\ pc' = "done"
    /\ UNCHANGED <<config, call, validated, request, httpCount, helper, process, tasks>>

\* the hosting runtime is ready for the next call
Reset ==
    /\ pc = "done"
    /\ pc' = "idle"
    /\ call' = NoCall
    /\ validated' = NoModel
    /\ request' = None
    /\ httpCount' = 0
    /\ upstream' = None
    /\ gateway' = None
    /\ result' = None
    /\ UNCHANGED <<config, helper, process, tasks>>

Next ==
    \/ \E c \in Calls : Invoke(c)
    \/ \E o \in Outcomes(call.tool) : Respond(o)
    \/ Reset

Spec == Init /\ [][Next]_vars

(***************************************************************************)
(* Several invocations at once: each task goes through the steps of Spec   *)
(* in its own frame, in any interleaving with the others.                  *)
(***************************************************************************)
ConcurrentCalls ==
    {TopCall(iphone, Some(1), None, Some(<<<<"M","o","b","i","l","e">>>>)),
     TopCall(iphone, Some(1), None, Some(<<MOBILE>>)),
     TopCall(<<>>, Some(1), None, None),
     DynCall(iphone, "MONTHLY", None, None, None, None),
     GatewayCall(<<"v1/x">>, <<>>, <<"P","U","T">>)}

ConcurrentOutcomes(tool) ==
    {Response(200, TRUE, j) :
        j \in IF tool \in Tools
              THEN {JObj(<<KV("result", JObj(<<KV("topRequests", JList(<<l>>))>>))>>) :
                        l \in {JObj(<<KV("phrase", S("buy")), KV("shows", JInt(1234567))>>),
                               S("plain")}}
              ELSE {JNull}}
    \cup {Response(401, FALSE, JNull), Failure("ReadTimeout")}

TaskInvoke(t, c) ==
    /\ tasks[t].pc = "idle"
    /\ LET v == Validate(c)
           a == GatewayArgs(c, v)
           g == GatewayBefore(a.method)
       IN  tasks' = [tasks EXCEPT ![t] =
              IF ~v.ok
              THEN Frame("done", c, v, None, 0, None, None,
                         Some(ToolExcept("ValidationError", NoErr, v.errs)), @.runs)
              ELSE IF IsSome(g)
              THEN Frame("done", c, v, None, 0, None, g, Some(Finish(c, v, Val(g))), @.runs)
              ELSE Frame("awaiting", c, v, Some(HttpRequest(a.endpoint, a.payload, a.method)),
                         DispatchCount(a.method), None, None, None, @.runs)]
    /\ UNCHANGED <<config, pc, call, validated, request, httpCount, upstream, gateway, result,
                   helper, process>>

TaskRespond(t, o) ==
    /\ tasks[t].pc = "awaiting"
    /\ tasks' = [tasks EXCEPT ![t].pc = "done",
                              ![t].upstream = Some(o),
                              ![t].gateway = Some(GatewayAfter(o)),
                              ![t].result = Some(Finish(Locals(tasks, t).call,
                                                        Locals(tasks, t).validated,
                                                        GatewayAfter(o)))]
    /\ UNCHANGED <<config, pc, call, validated, request, httpCount, upstream, gateway, result,
                   helper, process>>

\* the task ended; the runtime uses it for a later invocation
TaskReset(t) ==
    /\ tasks[t].pc = "done"
    /\ tasks[t].runs < MaxRuns
    /\ tasks' = [tasks EXCEPT ![t] = IdleFrame(@.runs + 1)]
    /\ UNCHANGED <<config, pc, call, validated, request, httpCount, upstream, gateway, result,
                   helper, process>>

ConcurrentNext ==
    \/ \E t \in Tasks, c \in ConcurrentCalls : TaskInvoke(t, c)
    \/ \E t \in Tasks : \E o \in ConcurrentOutcomes(tasks[t].call.tool) : TaskRespond(t, o)
    \/ \E t \in Tasks : TaskReset(t)

ConcurrentSpec == Init /\ [][ConcurrentNext]_vars

(***************************************************************************)
(* The helpers on their own.                                               *)
(***************************************************************************)
\* deepest nesting of envelopes in a value given to unwrap_response
MaxNesting == 6

RECURSIVE Wrap(_, _)
\* inner, inside one envelope per key of keys, the first key outermost
Wrap(keys, inner) ==
    IF Len(keys) = 0 THEN inner ELSE JObj(<<KV(Head(keys), Wrap(Tail(keys), inner))>>)

\* n envelope keys, taking result, data, response in turn
Chain(n) == [i \in 1..n |-> UnwrapKeys[((i - 1) % Len(UnwrapKeys)) + 1]]

Items12 == JObj(<<KV("items", JList(<<JInt(1), JInt(2)>>))>>)

EnvelopeInners == {JNull, JInt(1), S("text"), JList(<<JInt(1), JInt(2)>>), JObj(<<>>), Items12}

\* {"result": {"data": {"items": [1, 2]}}}
TwoEnvelopes == Wrap(<<"result", "data">>, Items12)

EnvelopeInputs ==
    {Wrap(Chain(n), j) : n \in 0..MaxNesting, j \in EnvelopeInners}
    \cup {Wrap(<<a, b>>, j) : a \in Range(UnwrapKeys), b \in Range(UnwrapKeys),
                              j \in {JInt(1), Items12}}
    \cup {JObj(<<KV("response", JInt(3)), KV("data", Items12), KV("result", j)>>) :
            j \in {JNull, JInt(1), Items12}}
    \cup {JObj(<<KV("x", JInt(0)), KV("response", JInt(3)), KV("data", Items12)>>),
          JObj(<<KV("x", JObj(<<KV("result", JInt(1))>>))>>),
          JList(<<JObj(<<KV("result", JInt(1))>>)>>)}

\* most entries of an object given to extract_sequence
MaxEntries == 2

EntryKeys == {"items", "Items", "foo"}
EntryValues == {JNull, S("bar"), JList(<<>>), JList(<<JInt(1), JInt(2), JInt(3)>>),
                JList(<<JInt(9)>>), JObj(<<KV("a", JList(<<JInt(1)>>))>>)}

\* the key sequences of an object: no key twice
EntryKeySeqs ==
    {ks \in SeqsUpTo(EntryKeys, MaxEntries) : \A i, j \in DOMAIN ks : i # j => ks[i] # ks[j]}

ExtractInputs ==
    UNION {{JObj([i \in DOMAIN ks |-> KV(ks[i], vs[i])]) : vs \in [DOMAIN ks -> EntryValues]} :
             ks \in EntryKeySeqs}
    \cup {JList(<<>>), JList(<<JInt(1), JObj(<<>>)>>), JNull, JInt(3), S("items"), JBool(TRUE),
          JObj(<<KV("x", JInt(1))>>)}

CandidateKeyLists == {<<>>, <<"items">>, <<"items", "Items">>, <<"Items", "items">>}

\* the values around 0 given to the formatters: every number of hundredths
\* up to this many either side, so both sides of 1.00 and of -1.00
FractionSpan == 120

\* numbers given to the formatters, in hundredths
SmallNumbers == (-FractionSpan)..FractionSpan
LargeNumbers == {150, 2500, 9999, 99999, 100000, 123456700, 123456789,
                 -150, -2500, -123499}

NotANumber == <<"n","o","t"," ","a"," ","n","u","m","b","e","r">>

\* values that are no number: absent, text, containers
NonNumericInputs == {JNull, JStr(NotANumber), JStr(<<>>), JList(<<>>), JList(<<JInt(1)>>),
                     JObj(<<>>)}

FormatterInputs ==
    {JNum(h) : h \in SmallNumbers \cup LargeNumbers}
    \cup NonNumericInputs
    \cup {JInf, JNaN, JBig, JBool(TRUE), JBool(FALSE), JStr(<<"1","2">>),
          JStr(<<"-","1",".","5">>), JStr(<<"i","n","f">>), JStr(<<"n","a","n">>)}

FractionHints == {None, Some(TRUE), Some(FALSE)}

\* no call is running and no helper has been applied
HelperIdle ==
    /\ pc = "idle" /\ helper = NoHelper
    /\ UNCHANGED <<config, pc, call, validated, request, httpCount, upstream, gateway, result, process, tasks>>

ApplyUnwrap ==
    /\ HelperIdle
    /\ \E j \in EnvelopeInputs :
          helper' = Applied("unwrap_response", j, <<>>, None, unwrap_response(j))

ApplyExtract ==
    /\ HelperIdle
    /\ \E j \in ExtractInputs, ks \in CandidateKeyLists :
          helper' = Applied("extract_sequence", j, ks, None, JList(extract_sequence(j, ks)))

ApplyFormatCount ==
    /\ HelperIdle
    /\ \E j \in FormatterInputs :
          helper' = Applied("format_count", j, <<>>, None, format_count(j))

\* with the hint given, a number is taken as a fraction whatever its size:
\* the large numbers are left to the calls without a hint
ApplyFormatPercentage ==
    /\ HelperIdle
    /\ \E j \in FormatterInputs, hint \in FractionHints :
          /\ (j.t = "num" /\ j.h \in LargeNumbers) => IsNone(hint)
          /\ helper' = Applied("format_percentage", j, <<>>, hint, format_percentage(j, hint))

\* the helper returned; the next application starts afresh
HelperReturn ==
    /\ helper # NoHelper
    /\ helper' = NoHelper
    /\ UNCHANGED <<config, pc, call, validated, request, httpCount, upstream, gateway, result, process, tasks>>

HelperNext ==
    \/ ApplyUnwrap
    \/ ApplyExtract
    \/ ApplyFormatCount
    \/ ApplyFormatPercentage
    \/ HelperReturn

HelperSpec == Init /\ [][HelperNext]_vars

(***************************************************************************)
(* The process from its start to its exit: the import reads the            *)
(* environment into Config, main() validates it and runs the server.       *)
(***************************************************************************)
TimeoutSteps == 8

TokenInputs == {None, Some(""), Some("test-token")}

\* REQUEST_TIMEOUT: whole milliseconds around the floor, decimals, a
\* negative, the texts float() reads as infinity and NaN, and texts it rejects
TimeoutInputs ==
    {None}
    \cup {Some(Dec(n * 250)) : n \in 0..TimeoutSteps}
    \cup {Some(<<"3","0","0","0","0">>), Some(<<"-","5","0","0","0">>),
          Some(<<"1","5","0","0",".","5">>), Some(<<"9","9","9",".","9","9">>),
          Some(<<"1","0","0","0",".","0","1">>),
          Some(<<"i","n","f">>), Some(<<"n","a","n">>),
          Some(<<>>), Some(<<"a","b","c">>), Some(<<"3","0","s">>),
          Some(<<"1",",","0","0","0">>), Some(<<"1",".","2",".","3">>)}

Envs == {Env(t, r) : t \in TokenInputs, r \in TimeoutInputs}

\* what ends mcp.run: its return ("") or an exception
RunLoopOutcomes == {"", "KeyboardInterrupt", "ValueError", "RuntimeError", "CancelledError"}

\* the process is started in an environment; nothing is imported yet and
\* Config is given the values of an empty environment
MainInit ==
    /\ process \in {Process(e, "start", FALSE, "", None) : e \in Envs}
    /\ config = Config(NoEnv)
    /\ pc = "idle"
    /\ call = NoCall
    /\ validated = NoModel
    /\ request = None
    /\ httpCount = 0
    /\ upstream = None
    /\ gateway = None
    /\ result = None
    /\ helper = NoHelper
    /\ tasks = NoTasks

\* the import: the class body of Config reads the environment
Import ==
    /\ process.pc = "start"
    /\ config' = Config(process.env)
    /\ process' = [process EXCEPT !.pc = "main"]
    /\ UNCHANGED <<pc, call, validated, request, httpCount, upstream, gateway, result, helper, tasks>>

\* main() up to mcp.run: Config.validate() raises and the ValueError
\* clause exits, or the run loop is started
ConfigValidate ==
    /\ process.pc = "main"
    /\ IF validate(config) # ""
       THEN process' = [process EXCEPT !.pc = "exited", !.exc = validate(config),
                                       !.status = Some(MainExcept(validate(config)))]
       ELSE process' = [process EXCEPT !.pc = "running", !.started = TRUE]
    /\ UNCHANGED <<config, pc, call, validated, request, httpCount, upstream, gateway, result, helper, tasks>>

\* mcp.run ends and main() ends the process
RunLoopEnds(e) ==
    /\ process.pc = "running"
    /\ process' = [process EXCEPT !.pc = "exited", !.exc = e, !.status = Some(MainExcept(e))]
    /\ UNCHANGED <<config, pc, call, validated, request, httpCount, upstream, gateway, result, helper, tasks>>

MainNext ==
    \/ Import
    \/ ConfigValidate
    \/ \E e \in RunLoopOutcomes : RunLoopEnds(e)

MainSpec == MainInit /\ [][MainNext]_vars

(***************************************************************************)
(* Properties.                                                             *)
(***************************************************************************)
InputTools == {"get_top_requests", "get_dynamics", "get_regions_distribution"}

Called == pc # "idle"
Res == Val(result)
Gw == Val(gateway)
Up == Val(upstream)

\* c is the lower-case form of the upper-case letter C
LowerOf(C) ==
    IF \E i \in DOMAIN UpperLetters : UpperLetters[i] = C
    THEN LowerLetters[CHOOSE i \in DOMAIN UpperLetters : UpperLetters[i] = C]
    ELSE C

\* s spells the canonical name, letter by letter, in either case
IsCaseVariantOf(s, canonical) ==
    /\ Len(s) = Len(canonical)
    /\ \A i \in DOMAIN s : s[i] = canonical[i] \/ s[i] = LowerOf(canonical[i])

DeviceNames == {DESKTOP, MOBILE, TABLET, ALL}
KnownDevice(s) == \E n \in DeviceNames : IsCaseVariantOf(s, n)
CanonicalDevice(s) == CHOOSE n \in DeviceNames : IsCaseVariantOf(s, n)

\* the day of a well-formed date, as one number
DateKey(s) == LET p == Strptime(s) IN p.y * 10000 + p.m * 100 + p.d
WellFormed(o) == IsSome(o) /\ Strptime(Val(o)).ok

\* the rules of the input schemas, as the field declarations state them
BreaksRule(c) ==
    \/ Len(c.phrase) = 0
    \/ c.tool = "get_top_requests" /\ IsSome(c.limit)
          /\ Val(c.limit) \notin 1..MAX_TOP_REQUESTS_LIMIT
    \/ IsSome(c.devices) /\ \E i \in DOMAIN Val(c.devices) : ~KnownDevice(Val(c.devices)[i])
    \/ c.tool = "get_dynamics" /\ c.period \notin {"DAILY", "WEEKLY", "MONTHLY"}
    \/ c.tool = "get_dynamics" /\ IsSome(c.from_date) /\ ~WellFormed(c.from_date)
    \/ c.tool = "get_dynamics" /\ IsSome(c.to_date) /\ ~WellFormed(c.to_date)
    \/ c.tool = "get_dynamics" /\ WellFormed(c.from_date) /\ WellFormed(c.to_date)
          /\ DateKey(Val(c.from_date)) > DateKey(Val(c.to_date))
    \/ c.tool = "get_regions_distribution"
          /\ c.region_type \notin {"COUNTRY", "REGION", "CITY"}

\* C1: a tool with inputs dispatches its request only once the whole input
\* validated; a call whose arguments break a rule ends in a failure with no
\* request sent
C1_NoRequestBeforeValidation ==
    (Called /\ call.tool \in InputTools) =>
        /\ (httpCount > 0 \/ IsSome(request)) => validated.ok
        /\ BreaksRule(call) =>
              /\ pc = "done" /\ httpCount = 0 /\ IsNone(request) /\ IsNone(upstream)
              /\ Res.kind = "raise"

C1_Witness ==
    /\ pc = "done" /\ call.tool = "get_dynamics" /\ config.OAUTH_TOKEN # ""
    /\ BreaksRule(call) /\ Len(call.phrase) > 0 /\ call.period = "MONTHLY"
    /\ httpCount = 0 /\ Res.kind = "raise"

\* C2 as claimed: with an empty token every call, of the gateway or of a
\* tool, fails saying the token is not configured, and sends no request
C2_AsClaimed ==
    (Called /\ config.OAUTH_TOKEN = "") =>
        /\ pc = "done" /\ httpCount = 0 /\ IsNone(request)
        /\ Res.kind = "raise" /\ Res.exc = "ToolError"
        /\ Res.err.kind = "TokenNotConfigured"

\* C2, amended: with an empty token every call ends at once in a ToolError
\* and sends no request; the failure says the token is not configured for
\* make_wordstat_request and for a tool whose input validated, and is the
\* validation failure for a tool whose input did not validate
C2_EmptyTokenFailsBeforeRequest ==
    (Called /\ config.OAUTH_TOKEN = "") =>
        /\ pc = "done" /\ httpCount = 0 /\ IsNone(request) /\ IsNone(upstream)
        /\ Res.kind = "raise" /\ Res.exc = "ToolError"
        /\ validated.ok => Res.err.kind = "TokenNotConfigured"
        /\ ~validated.ok => Res.err.kind = "FailedToRetrieve"
                            /\ Res.err.cause = "ValidationError"

C2_Witness ==
    /\ pc = "done" /\ config.OAUTH_TOKEN = "" /\ call.tool = "make_wordstat_request"
    /\ call.method = GET /\ Len(call.endpoint) > 0
    /\ Res.err.kind = "TokenNotConfigured" /\ httpCount = 0

\* C3: the gateway maps a response by its status: 200 returns the parsed
\* body or is a parse failure; 401, 403, 429 have their own failures; 500
\* and above is a server failure and any other status an unexpected-status
\* failure, both naming the status; only 200 returns data
C3_StatusMapping ==
    (pc = "done" /\ IsSome(upstream) /\ Up.exc = "") =>
        LET st == Up.status IN
        /\ IsSome(gateway)
        /\ (st = 200 /\ Up.parses) => (Gw.kind = "return" /\ Gw.json = Up.json)
        /\ (st = 200 /\ ~Up.parses) => (Gw.kind = "raise" /\ Gw.err.kind = "ParseFailed")
        /\ st = 401 => (Gw.kind = "raise" /\ Gw.err.kind = "AuthenticationFailed")
        /\ st = 403 => (Gw.kind = "raise" /\ Gw.err.kind = "AccessForbidden")
        /\ st = 429 => (Gw.kind = "raise" /\ Gw.err.kind = "RateLimitExceeded")
        /\ (st >= 500) => (Gw.kind = "raise" /\ Gw.err.kind = "ServerError" /\ Gw.err.num = st)
        /\ (st < 500 /\ st \notin {200, 401, 403, 429}) =>
              (Gw.kind = "raise" /\ Gw.err.kind = "RequestFailed" /\ Gw.err.num = st)
        /\ Gw.kind = "return" => st = 200
        /\ Gw.kind = "raise" => Gw.exc = "ToolError"

C3_Witness ==
    /\ pc = "done" /\ IsSome(upstream) /\ Up.exc = "" /\ Up.status = 204 /\ Up.parses = FALSE
    /\ Gw.err.kind = "RequestFailed" /\ Gw.err.num = 204

C5_AtMostOneRequest ==
    /\ httpCount <= 1
    /\ pc = "awaiting" => httpCount = 1
    /\ (pc = "done" /\ IsSome(upstream)) => httpCount = 1

C5_Witness ==
    /\ pc = "done" /\ call.tool = "get_top_requests" /\ IsSome(upstream)
    /\ Up.status = 503 /\ Res.kind = "raise" /\ httpCount = 1

\* C6: a failure of the gateway is the failure of the tool: the same
\* ToolError with the same message, and no text
C6_GatewayFailureUnchanged ==
    (pc = "done" /\ call.tool \in Tools /\ IsSome(gateway) /\ Gw.kind = "raise") =>
        /\ Res.kind = "raise" /\ Res.exc = Gw.exc /\ Res.err = Gw.err
        /\ Res.err.kind # "FailedToRetrieve"
        /\ Res.lines = <<>>
        /\ (IsSome(upstream) /\ Up.exc = "" /\ Up.status = 429) =>
              Res.err.kind = "RateLimitExceeded"

C6_Witness ==
    /\ pc = "done" /\ call.tool = "get_dynamics" /\ IsSome(upstream) /\ Up.exc = ""
    /\ Up.status = 429 /\ Res.kind = "raise" /\ Res.err.kind = "RateLimitExceeded"

\* C7: once the gateway returned parsed JSON to a tool, the tool returns
\* text, whatever the JSON is
C7_FormattingNeverFails ==
    (pc = "done" /\ call.tool \in Tools /\ IsSome(gateway) /\ Gw.kind = "return") =>
        Res.kind = "return"

\* C8: with the other fields valid, the limit of the top-queries input
\* passes exactly when it is in 1..MAX_TOP_REQUESTS_LIMIT, a rejection names
\* the bound, and a limit that passed is an integer in that range
C8_LimitRange ==
    (Called /\ call.tool = "get_top_requests"
        /\ \A e \in validated.errs : e.field = "limit") =>
        LET inRange == IsSome(call.limit) /\ Val(call.limit) \in 1..MAX_TOP_REQUESTS_LIMIT
            limitErrs == {e \in validated.errs : e.field = "limit"}
        IN  /\ inRange => limitErrs = {}
            /\ ~inRange => /\ limitErrs # {}
                           /\ \A e \in limitErrs : e.bound \in {1, MAX_TOP_REQUESTS_LIMIT}
            /\ validated.ok => /\ IsSome(validated.limit)
                               /\ Val(validated.limit) \in 1..MAX_TOP_REQUESTS_LIMIT

\* C9: a devices list passes exactly when each element spells one of the
\* four device names in some case, and then the validated list is the
\* canonical names in the same order; a list with an unknown element fails
\* the whole input; alike for the three inputs
C9_DevicesNormalized ==
    (Called /\ call.tool \in InputTools /\ IsSome(call.devices)) =>
        LET raw == Val(call.devices)
            allKnown == \A i \in DOMAIN raw : KnownDevice(raw[i])
            deviceErrs == {e \in validated.errs : e.field = "devices"}
        IN  /\ allKnown <=> deviceErrs = {}
            /\ allKnown =>
                  /\ IsSome(validated.devices)
                  /\ Len(Val(validated.devices)) = Len(raw)
                  /\ \A i \in DOMAIN raw : Val(validated.devices)[i] = CanonicalDevice(raw[i])
            /\ ~allKnown =>
                  /\ ~validated.ok /\ IsNone(validated.devices)
                  /\ pc = "done" /\ IsNone(request) /\ Res.kind = "raise"

C9_Witness ==
    /\ Called /\ call.tool = "get_regions_distribution" /\ IsSome(call.devices)
    /\ Val(call.devices) = <<<<"d","e","s","k","t","o","p">>, <<"M","o","b","i","l","e">>>>
    /\ validated.ok /\ validated.devices = Some(<<DESKTOP, MOBILE>>)

RangeErr == VErr("model", "value_error", 0)

\* C10: with every field of the dynamics input valid, two well-formed dates
\* are rejected exactly when from_date is the later day; equal days pass,
\* and a single date is never rejected by the range check
C10_DateRange ==
    (Called /\ call.tool = "get_dynamics" /\ validated.errs \subseteq {RangeErr}) =>
        /\ (WellFormed(call.from_date) /\ WellFormed(call.to_date)) =>
              (~validated.ok <=> DateKey(Val(call.from_date)) > DateKey(Val(call.to_date)))
        /\ (IsNone(call.from_date) \/ IsNone(call.to_date)) => validated.ok

C10_Witness ==
    /\ Called /\ call.tool = "get_dynamics"
    /\ call.from_date = Some(D_2023_02_01) /\ call.to_date = Some(D_2023_2_1)
    /\ validated.ok /\ pc = "awaiting"

C10_WitnessRejected ==
    /\ Called /\ call.tool = "get_dynamics"
    /\ call.from_date = Some(D_2023_2_1) /\ call.to_date = Some(D_2023_01_31)
    /\ validated.errs = {RangeErr} /\ pc = "done"

\* the first of result, data, response that the object j holds
FirstEnvelopeKey(j) ==
    IF HasKey(j, "result") THEN "result" ELSE IF HasKey(j, "data") THEN "data" ELSE "response"

Enveloped(j) ==
    IsDict(j) /\ (HasKey(j, "result") \/ HasKey(j, "data") \/ HasKey(j, "response"))

\* one descent, where there is one to make
Descend(j) == IF Enveloped(j) THEN Item(j, FirstEnvelopeKey(j)) ELSE j

\* C13: unwrap_response returns the value reached by descending through
\* the first key present among result, data, response, five times at most;
\* the result is not an object, or holds none of the keys, or was reached
\* by exactly five descents; a value that is not an object is returned
\* unchanged; {"result": {"data": {"items": [1, 2]}}} gives {"items": [1, 2]}
C13_UnwrapResponse ==
    helper.fn = "unwrap_response" =>
        LET d0 == helper.arg
            d1 == Descend(d0)
            d2 == Descend(d1)
            d3 == Descend(d2)
            d4 == Descend(d3)
            d5 == Descend(d4)
        IN  /\ helper.out = d5
            /\ \/ ~IsDict(helper.out)
               \/ ~Enveloped(helper.out)
               \/ Enveloped(d0) /\ Enveloped(d1) /\ Enveloped(d2) /\ Enveloped(d3)
                                /\ Enveloped(d4)
            /\ ~IsDict(d0) => helper.out = d0
            /\ d0 = TwoEnvelopes => helper.out = Items12

C13_Witness ==
    /\ helper.fn = "unwrap_response"
    /\ helper.arg = Wrap(Chain(6), Items12)
    /\ helper.out = JObj(<<KV("response", Items12)>>)

\* the upper-case spelling of an enumerated input
UpperSpelling(s) ==
    CASE s = "monthly" -> "MONTHLY"
      [] s = "city" -> "CITY"
      [] OTHER -> s

\* C11: with the other fields valid, period and region_type pass exactly
\* when they spell an allowed value in some case, and the validated value
\* is then the upper-case spelling
C11_EnumsCaseInsensitive ==
    /\ (Called /\ call.tool = "get_dynamics" /\ \A e \in validated.errs : e.field = "period") =>
          /\ validated.ok <=> UpperSpelling(call.period) \in {"DAILY", "WEEKLY", "MONTHLY"}
          /\ validated.ok => validated.period = UpperSpelling(call.period)
    /\ (Called /\ call.tool = "get_regions_distribution"
            /\ \A e \in validated.errs : e.field = "region_type") =>
          /\ validated.ok <=> UpperSpelling(call.region_type) \in {"COUNTRY", "REGION", "CITY"}
          /\ validated.ok => validated.region_type = UpperSpelling(call.region_type)

\* a str that is empty or holds only whitespace
IsBlank(p) == \A i \in DOMAIN p : p[i] \in {" ", "\t", "\n", "\r"}

\* C12: a call whose phrase is empty or only whitespace fails validation
\* and sends no request
C12_BlankPhraseRejected ==
    (Called /\ call.tool \in InputTools /\ IsBlank(call.phrase)) =>
        /\ ~validated.ok
        /\ pc = "done" /\ IsNone(request) /\ httpCount = 0

\* C14: extract_sequence returns an array: of an object, the array under
\* the first candidate key, in the caller's order, that holds an array,
\* else the first array among the object's values in their order, else the
\* empty sequence; of an array, the array; of anything else, the empty
\* sequence
C14_ExtractSequence ==
    helper.fn = "extract_sequence" =>
        LET d == helper.arg
            ks == helper.keys
            out == helper.out.items
        IN  /\ DOMAIN out = 1..Len(out)
            /\ IsList(d) => out = d.items
            /\ (~IsDict(d) /\ ~IsList(d)) => out = <<>>
            /\ IsDict(d) =>
                  IF \E i \in DOMAIN ks : IsList(Get(d, ks[i]))
                  THEN \E i \in DOMAIN ks :
                          /\ IsList(Get(d, ks[i]))
                          /\ \A j \in 1..(i - 1) : ~IsList(Get(d, ks[j]))
                          /\ out = Get(d, ks[i]).items
                  ELSE IF \E i \in DOMAIN d.kv : IsList(d.kv[i].v)
                  THEN \E i \in DOMAIN d.kv :
                          /\ IsList(d.kv[i].v)
                          /\ \A j \in 1..(i - 1) : ~IsList(d.kv[j].v)
                          /\ out = d.kv[i].v.items
                  ELSE out = <<>>
            /\ (d = JObj(<<KV("foo", S("bar")), KV("items", JList(<<JInt(1), JInt(2), JInt(3)>>))>>)
                  /\ ks = <<"items">>) => out = <<JInt(1), JInt(2), JInt(3)>>
            /\ d = JObj(<<KV("x", JInt(1))>>) => out = <<>>

C14_Witness ==
    /\ helper.fn = "extract_sequence"
    /\ helper.arg = JObj(<<KV("foo", JList(<<JInt(9)>>)), KV("Items", S("bar"))>>)
    /\ helper.keys = <<"items", "Items">>
    /\ helper.out = JList(<<JInt(9)>>)

\* the payload of the request in flight
SentPayload == Val(Val(request).json)
PayloadKeys == {SentPayload[i].k : i \in DOMAIN SentPayload}

\* C15: the payload of a tool's request holds the key of an optional input
\* only when the caller supplied it, and no key holds a null
C15_PayloadOmitsAbsent ==
    (pc = "awaiting" /\ call.tool \in InputTools) =>
        /\ \A i \in DOMAIN SentPayload : IsSome(SentPayload[i].v)
        /\ "limit" \in PayloadKeys => IsSome(call.limit)
        /\ "regions" \in PayloadKeys => IsSome(call.regions)
        /\ "devices" \in PayloadKeys => IsSome(call.devices)
        /\ "fromDate" \in PayloadKeys => IsSome(call.from_date)
        /\ "toDate" \in PayloadKeys => IsSome(call.to_date)

\* the lines of one kind in the text a tool returned
LinesOf(kind) == SelectSeq(Res.lines, LAMBDA l : l.kind = kind)

\* the result items a top-queries response holds
TopQueries == extract_sequence(unwrap_response(Gw.json), TopSequenceKeys)

Min(a, b) == IF a < b THEN a ELSE b

\* C16: a top-queries call with an integer limit whose response holds
\* n >= 1 items returns text with exactly min(n, limit) numbered lines,
\* numbered from 1 in upstream order, the count 1234567 shown as
\* 1,234,567, and no no-results line
C16_TopRequestsLines ==
    (pc = "done" /\ call.tool = "get_top_requests" /\ IsSome(gateway) /\ Gw.kind = "return"
        /\ IsSome(validated.limit) /\ Len(TopQueries) >= 1) =>
        /\ Res.kind = "return"
        /\ Len(LinesOf("numbered")) = Min(Len(TopQueries), Val(validated.limit))
        /\ \A i \in DOMAIN LinesOf("numbered") :
              /\ LinesOf("numbered")[i].idx = i
              /\ (IsDict(TopQueries[i]) /\ HasKey(TopQueries[i], "phrase")) =>
                    LinesOf("numbered")[i].cells[1] = Item(TopQueries[i], "phrase").s
              /\ (IsDict(TopQueries[i]) /\ Get(TopQueries[i], "shows") = JInt(1234567)) =>
                    LinesOf("numbered")[i].cells[2]
                        = <<"1", ",", "2", "3", "4", ",", "5", "6", "7", " searches">>
        /\ LinesOf("no_results") = <<>>

\* the sequence a tool extracted from the response it was given
Extracted ==
    extract_sequence(unwrap_response(Gw.json),
                     CASE call.tool = "get_top_requests" -> TopSequenceKeys
                       [] call.tool = "get_dynamics" -> DynSequenceKeys
                       [] OTHER -> RegSequenceKeys)

\* C17: when the sequence extracted from the response is empty, the text
\* of get_top_requests, get_dynamics and get_regions_distribution holds the
\* no-results line and no numbered line, table header or table row
C17_EmptyGivesNoResults ==
    (pc = "done" /\ call.tool \in InputTools /\ IsSome(gateway) /\ Gw.kind = "return"
        /\ Extracted = <<>>) =>
        /\ Res.kind = "return"
        /\ Len(LinesOf("no_results")) = 1
        /\ LinesOf("numbered") = <<>>
        /\ LinesOf("header") = <<>>
        /\ LinesOf("row") = <<>>

C17_Witness ==
    /\ pc = "done" /\ call.tool = "get_dynamics" /\ IsSome(gateway)
    /\ Gw.json = JObj(<<KV("result", JObj(<<KV("Dynamics", JList(<<>>))>>))>>)
    /\ Res.kind = "return" /\ Len(LinesOf("no_results")) = 1

\* a text without its leading minus sign, and without its commas
StripSign(t) == IF Len(t) > 0 /\ t[1] = "-" THEN Tail(t) ELSE t
Ungrouped(t) == SelectSeq(t, LAMBDA c : c # ",")

\* digits in groups of three from the right, a comma between the groups
IsGrouped(t) ==
    /\ Len(t) > 0 /\ t[1] # ","
    /\ \A i \in DOMAIN t : IF (Len(t) - i + 1) % 4 = 0 THEN t[i] = "," ELSE IsDigit(t[i])
    /\ Len(t) > 1 => t[1] # "0"

Abs(n) == IF n < 0 THEN -n ELSE n

\* C18: format_count never raises; a number is shown as its value
\* truncated toward zero, comma-grouped (1234567 as 1,234,567); a value
\* that is absent or no finite number is shown as n/a
C18_FormatCount ==
    helper.fn = "format_count" =>
        LET a == helper.arg
            o == helper.out
        IN  /\ o.exc = ""
            /\ a \in NonNumericInputs \cup {JInf, JNaN} => o.text = NA
            /\ a.t = "num" =>
                  LET n == NumVal(Ungrouped(StripSign(o.text)))
                  IN  /\ IsGrouped(StripSign(o.text))
                      /\ n * Scale <= Abs(a.h) /\ Abs(a.h) < (n + 1) * Scale
                      /\ o.text[1] = "-" <=> a.h <= -Scale
            /\ a = JInt(1234567) => o.text = <<"1", ",", "2", "3", "4", ",", "5", "6", "7">>

\* digits, a point, two digits and a percent sign, after an optional minus
IsPercentText(t) ==
    LET b == StripSign(t)
    IN  /\ Len(b) >= 5
        /\ b[Len(b)] = "%" /\ b[Len(b) - 3] = "."
        /\ \A i \in DOMAIN b : i \notin {Len(b), Len(b) - 3} => IsDigit(b[i])

\* the percentage a text shows, in hundredths of a percent
PercentValue(t) ==
    LET b == StripSign(t)
        shown == NumVal(SubSeq(b, 1, Len(b) - 4)) * Scale + NumVal(SubSeq(b, Len(b) - 2, Len(b) - 1))
    IN  IF t[1] = "-" THEN -shown ELSE shown

\* C19: format_percentage never raises and shows n/a for a value that is
\* absent or no number; any other output is digits with two decimals and a
\* percent sign; without a hint a number v is shown as 100*v percent when
\* |v| <= 1 and as v percent otherwise (0.25 and 25 both as 25.00%); with
\* the fraction hint it is shown as 100*v percent
C19_FormatPercentage ==
    helper.fn = "format_percentage" =>
        LET a == helper.arg
            o == helper.out
            asFraction == helper.hint = Some(TRUE) \/ (IsNone(helper.hint) /\ Abs(a.h) <= Scale)
        IN  /\ o.exc = ""
            /\ a \in NonNumericInputs => o.text = NA
            /\ o.text # NA => IsPercentText(o.text)
            /\ (a.t = "num" /\ helper.hint # Some(FALSE)) =>
                  /\ o.text # NA
                  /\ PercentValue(o.text) = IF asFraction THEN a.h * Scale ELSE a.h
            /\ (a \in {JNum(25), JInt(25)} /\ IsNone(helper.hint)) =>
                  o.text = <<"2", "5", ".", "0", "0", "%">>

\* C20: with a token configured, make_wordstat_request called with a
\* method that spells POST in some case sends the payload as the JSON body,
\* with one that spells GET sends it as the query parameters, and with any
\* other method fails with the unsupported-method failure, no request sent
C20_MethodDispatch ==
    (Called /\ call.tool = "make_wordstat_request" /\ config.OAUTH_TOKEN # "") =>
        /\ IsCaseVariantOf(call.method, POST) =>
              /\ IsSome(request) /\ httpCount = 1
              /\ Val(request).verb = POST
              /\ Val(request).json = Some(call.payload) /\ Val(request).params = None
        /\ IsCaseVariantOf(call.method, GET) =>
              /\ IsSome(request) /\ httpCount = 1
              /\ Val(request).verb = GET
              /\ Val(request).params = Some(call.payload) /\ Val(request).json = None
        /\ (~IsCaseVariantOf(call.method, POST) /\ ~IsCaseVariantOf(call.method, GET)) =>
              /\ pc = "done" /\ IsNone(request) /\ httpCount = 0 /\ IsNone(upstream)
              /\ Res.kind = "raise" /\ Res.exc = "ToolError"
              /\ Res.err.kind = "UnsupportedMethod"

C20_Witness ==
    /\ pc = "awaiting" /\ call.tool = "make_wordstat_request"
    /\ call.method = <<"G", "e", "t">>
    /\ Val(request).verb = GET /\ Val(request).params = Some(call.payload)

C20_WitnessUnsupported ==
    /\ pc = "done" /\ call.tool = "make_wordstat_request" /\ call.method = <<"P", "U", "T">>
    /\ Res.err.kind = "UnsupportedMethod" /\ httpCount = 0

\* C21: every request the gateway dispatches carries Authorization: Bearer
\* <the token of the current configuration>, Content-Type: application/json
\* and Accept: application/json, and the token it carries is not empty
C21_RequestHeaders ==
    IsSome(request) =>
        /\ Val(request).headers.Authorization = <<"Bearer ", config.OAUTH_TOKEN>>
        /\ config.OAUTH_TOKEN # ""
        /\ Val(request).headers.ContentType = "application/json"
        /\ Val(request).headers.Accept = "application/json"
        /\ DOMAIN Val(request).headers = {"Authorization", "ContentType", "Accept"}

C21_Witness ==
    /\ pc = "awaiting" /\ call.tool = "get_dynamics" /\ httpCount = 1
    /\ Val(request).headers.Authorization = <<"Bearer ", "test-token">>

\* C22: main() validates the configuration before it starts the run loop.
\* With an empty token the run loop is never started and the process exits
\* with status 1; the run loop is only ever started with a token; an
\* interrupt during the run loop exits with status 0 and any other
\* exception during the run loop with status 1
C22_MainExit ==
    /\ (process.pc \in {"running", "exited"} /\ config.OAUTH_TOKEN = "") =>
           /\ process.pc = "exited" /\ ~process.started
           /\ process.status = Some(1)
    /\ process.started => config.OAUTH_TOKEN # ""
    /\ (process.pc = "exited" /\ process.started) =>
           /\ process.exc = "KeyboardInterrupt" => process.status = Some(0)
           /\ process.exc \notin {"", "KeyboardInterrupt"} => process.status = Some(1)
    /\ process.pc = "exited" <=> IsSome(process.status)

C22_Witness ==
    /\ process.pc = "exited" /\ process.started
    /\ process.exc = "KeyboardInterrupt" /\ process.status = Some(0)

C22_WitnessNoToken ==
    /\ process.pc = "exited" /\ ~process.started
    /\ process.env.YANDEX_OAUTH_TOKEN = None /\ process.status = Some(1)

\* the text is a number of milliseconds: an optional sign, digits and an
\* optional fraction
IsNumeral(s) ==
    LET body == IF Len(s) > 0 /\ s[1] = "-" THEN Tail(s) ELSE s
        dots == {i \in DOMAIN body : body[i] = "."}
    IN  \/ AllDigits(body)
        \/ /\ Cardinality(dots) = 1
           /\ LET d == CHOOSE i \in dots : TRUE
              IN  AllDigits(SubSeq(body, 1, d - 1)) /\ AllDigits(SubSeq(body, d + 1, Len(body)))

\* the milliseconds a numeral of at most two decimals names, in hundredths
Millis(s) ==
    LET neg == Len(s) > 0 /\ s[1] = "-"
        body == IF neg THEN Tail(s) ELSE s
        dots == {i \in DOMAIN body : body[i] = "."}
        d == IF dots = {} THEN Len(body) + 1 ELSE CHOOSE i \in dots : TRUE
        fp == SubSeq(body, d + 1, Len(body))
        abs == NumVal(SubSeq(body, 1, d - 1)) * 100
               + (IF Len(fp) = 0 THEN 0 ELSE IF Len(fp) = 1 THEN 10 * NumVal(fp) ELSE NumVal(fp))
    IN  IF neg THEN -abs ELSE abs

Imported == process.pc \in {"main", "running", "exited"}

\* C27: once the configuration is read, the request timeout is
\* max(1, ms / 1000) seconds when REQUEST_TIMEOUT is a number of
\* milliseconds, 30 seconds when the variable is unset and 30 seconds when
\* its value is not a number; it is at least 1 second in every case
C27_RequestTimeout ==
    Imported =>
        LET raw == process.env.REQUEST_TIMEOUT
            t == config.REQUEST_TIMEOUT_SECONDS
        IN  /\ IsNone(raw) => t = Seconds(30)
            /\ (IsSome(raw) /\ IsNumeral(Val(raw))) =>
                  /\ t.f = "fin"
                  /\ t.h = (IF Millis(Val(raw)) > Seconds(1).h THEN Millis(Val(raw))
                                              ELSE Seconds(1).h)
            /\ (IsSome(raw) /\ ~IsNumeral(Val(raw))) => t = Seconds(30)
            /\ t.f = "fin" => t.h >= Seconds(1).h

\* the value of the first of the keys the record holds, whatever the
\* value; null when it holds none of them
FirstPresent(d, keys) ==
    LET held == {i \in DOMAIN keys : HasKey(d, keys[i])}
    IN  IF held = {} THEN JNull
        ELSE Item(d, keys[CHOOSE i \in held : \A j \in held : i <= j])

DynEntries == extract_sequence(unwrap_response(Gw.json), DynSequenceKeys)

\* C23: the count a line shows is the value of the first count key the
\* record holds, in the listed order, also when that value is 0 or
\* otherwise falsy: in get_top_requests the line of a record carries
\* "<count> searches" for that value, or no count when the value is
\* missing or not numeric; in get_dynamics the count cell of a row is that
\* value formatted, or the sentinel
C23_FirstPresentKey ==
    /\ (pc = "done" /\ call.tool = "get_top_requests" /\ IsSome(gateway)
        /\ Res.kind = "return" /\ Len(TopQueries) > 0) =>
          LET shown == Take(TopQueries, validated.limit)
              lines == LinesOf("numbered")
              IsCount(cell) == Len(cell) > 0 /\ cell[Len(cell)] = " searches"
              Of(i, t) ==
                  t.exc = "" =>
                     IF t.text = NA
                     THEN \A k \in DOMAIN lines[i].cells : ~IsCount(lines[i].cells[k])
                     ELSE \E k \in DOMAIN lines[i].cells :
                             lines[i].cells[k] = t.text \o <<" searches">>
          IN  \A i \in DOMAIN shown :
                 IsDict(shown[i]) =>
                    Of(i, format_count(FirstPresent(shown[i],
                          <<"shows", "Shows", "count", "Count", "volume", "Volume">>)))
    /\ (pc = "done" /\ call.tool = "get_dynamics" /\ IsSome(gateway)
        /\ Res.kind = "return" /\ Len(DynEntries) > 0) =>
          LET rows == SelectSeq(DynEntries, IsDict)
              lines == LinesOf("row")
              Of(i, t) == t.exc = "" => lines[i].cells[2] = t.text
          IN  \A i \in DOMAIN rows :
                 Of(i, format_count(FirstPresent(rows[i], <<"shows", "Shows", "count", "Count">>)))

\* the value get_regions_tree renders: the response unwrapped, and the
\* value of its first tree key when it is an object holding one
TreeRegions ==
    LET Of(data) ==
            IF IsDict(data) /\ \E i \in DOMAIN TreeKeys : HasKey(data, TreeKeys[i])
            THEN FirstPresent(data, TreeKeys)
            ELSE data
    IN  Of(unwrap_response(Gw.json))

RECURSIVE Flatten(_)
Flatten(ss) == IF Len(ss) = 0 THEN <<>> ELSE Head(ss) \o Flatten(Tail(ss))

RECURSIVE PreOrder(_, _)
\* the nodes of a structure of objects and child lists, parents before
\* their children and children in their order, each with its depth
PreOrder(node, level) ==
    IF IsDict(node)
    THEN LET listed == IF Truthy(Get(node, "children")) THEN Get(node, "children")
                       ELSE Get(node, "Children")
             kids == IF IsList(listed) THEN listed.items ELSE <<>>
         IN  <<[node |-> node, level |-> level]>>
             \o Flatten([i \in DOMAIN kids |-> PreOrder(kids[i], level + 1)])
    ELSE IF IsList(node)
    THEN Flatten([i \in DOMAIN node.items |-> PreOrder(node.items[i], level)])
    ELSE <<>>

\* C24: in the text get_regions_tree returns, the Total Regions number is
\* the number of bullet lines; the bullets are the nodes of the structure,
\* parents before their children and children in order, each indented by
\* its depth; with no node the total is 0 and the one no-regions line
\* stands for the body
C24_RegionsTree ==
    (pc = "done" /\ call.tool = "get_regions_tree" /\ IsSome(gateway) /\ Res.kind = "return") =>
        LET bullets == LinesOf("bullet")
            nodes == PreOrder(TreeRegions, 0)
        IN  /\ Len(LinesOf("total")) = 1
            /\ LinesOf("total")[1].idx = Len(bullets)
            /\ Len(bullets) = Len(nodes)
            /\ \A i \in DOMAIN bullets : bullets[i].idx = nodes[i].level
            /\ \A i \in DOMAIN bullets :
                  i > 1 => bullets[i].idx <= bullets[i - 1].idx + 1
            /\ Len(bullets) > 0 => (bullets[1].idx = 0 /\ LinesOf("no_results") = <<>>)
            /\ Len(bullets) = 0 => Len(LinesOf("no_results")) = 1
            /\ Len(Res.lines) = 4 + (IF Len(bullets) = 0 THEN 1 ELSE Len(bullets))

C24_Witness ==
    /\ pc = "done" /\ call.tool = "get_regions_tree" /\ IsSome(result) /\ Res.kind = "return"
    /\ LinesOf("total")[1].idx = 4
    /\ [i \in DOMAIN LinesOf("bullet") |-> LinesOf("bullet")[i].idx] = <<0, 1, 1, 2>>
    /\ LinesOf("bullet")[4].cells[1] = <<"Perm">>

C24_WitnessEmpty ==
    /\ pc = "done" /\ call.tool = "get_regions_tree" /\ IsSome(result) /\ Res.kind = "return"
    /\ LinesOf("total")[1].idx = 0 /\ Len(LinesOf("no_results")) = 1

\* the tool returned its text
ReturnedText == pc = "done" /\ call.tool \in InputTools /\ IsSome(result) /\ Res.kind = "return"

\* the text an echo line carries for the arguments of the call: the dates
\* as given, the region ids joined, the device names in their canonical
\* spelling joined
EchoText(kind) ==
    CASE kind = "from"    -> Val(call.from_date)
      [] kind = "to"      -> Val(call.to_date)
      [] kind = "regions" -> RegionsText(Val(call.regions))
      [] kind = "devices" ->
            DevicesText([i \in DOMAIN Val(call.devices) |-> CanonicalDevice(Val(call.devices)[i])])

EchoArg(kind) ==
    CASE kind = "from"    -> call.from_date
      [] kind = "to"      -> call.to_date
      [] kind = "regions" -> call.regions
      [] kind = "devices" -> call.devices

EchoKinds == {"from", "to", "regions", "devices"}

\* C25 as claimed: an echo line (From, To, Regions, Devices) is in the text
\* exactly when the caller supplied the input
C25_AsClaimed ==
    ReturnedText =>
        \A k \in EchoKinds : (Len(LinesOf(k)) = 1) <=> IsSome(EchoArg(k))

\* C25: an echo line (From, To, Regions, Devices) is in the text, once,
\* exactly when the caller supplied the input with a non-empty value, and
\* it carries the validated value; a supplied empty list gives no line,
\* and a call without optional inputs has none of the lines
C25_EchoLines ==
    ReturnedText =>
        \A k \in EchoKinds :
            IF IsSome(EchoArg(k)) /\ Len(Val(EchoArg(k))) > 0
            THEN LinesOf(k) = <<Line(k, 0, <<EchoText(k)>>)>>
            ELSE LinesOf(k) = <<>>

C25_Witness ==
    /\ ReturnedText /\ call.tool = "get_dynamics"
    /\ Len(LinesOf("from")) = 1 /\ Len(LinesOf("regions")) = 1 /\ LinesOf("to") = <<>>
    /\ call.devices = Some(<<<<"M","o","b","i","l","e">>>>)
    /\ LinesOf("devices") = <<Line("devices", 0, <<MOBILE>>)>>

C25_WitnessEmptyList ==
    /\ ReturnedText /\ call.tool = "get_top_requests"
    /\ call.regions = Some(<<>>) /\ LinesOf("regions") = <<>>

\* the result of a call run alone, given the outcome of its request (if
\* it makes one)
Alone(c, o) ==
    LET Gateway(v, g) ==
            IF IsSome(g) THEN Finish(c, v, Val(g)) ELSE Finish(c, v, GatewayAfter(Val(o)))
        Valid(v) ==
            IF ~v.ok THEN ToolExcept("ValidationError", NoErr, v.errs)
            ELSE Gateway(v, GatewayBefore(GatewayArgs(c, v).method))
    IN  Valid(Validate(c))

\* C26: whatever the interleaving of concurrent invocations, the
\* configuration stays one of the configurations read at the import, and
\* the result of every finished invocation (text or failure) is the result
\* the same call gives when it runs alone against the same upstream
\* response
C26_NoInterference ==
    /\ config \in Configs
    /\ \A t \in Tasks :
          tasks[t].pc = "done" =>
             tasks[t].result = Some(Alone(tasks[t].call, tasks[t].upstream))

C26_Witness ==
    /\ tasks[1].pc = "done" /\ tasks[1].call.tool = "get_dynamics"
    /\ tasks[1].httpCount = 1 /\ Val(tasks[1].result).kind = "return"
    /\ tasks[2].pc = "awaiting" /\ tasks[2].call.tool = "get_top_requests"

\* the invocation of task t got JSON from the gateway and formatted it
Formatted(t) ==
    /\ tasks[t].pc = "done" /\ tasks[t].call.tool \in Tools
    /\ IsSome(tasks[t].gateway) /\ Val(tasks[t].gateway).kind = "return"

RegionsData == extract_sequence(unwrap_response(Gw.json), RegSequenceKeys)

\* C29: the text of get_regions_distribution has at most 20 data rows, one
\* for each object among the first 20 items of the extracted sequence, in
\* upstream order; the "(Showing top 20 of N total regions)" line is there
\* exactly when the sequence has more than 20 items, with N its length
C29_RegionsRows ==
    (pc = "done" /\ call.tool = "get_regions_distribution" /\ IsSome(gateway)
        /\ Res.kind = "return" /\ Len(RegionsData) > 0) =>
        LET rows == LinesOf("row")
            first == SubSeq(RegionsData, 1, Min(Len(RegionsData), 20))
            objects == SelectSeq(first, IsDict)
        IN  /\ Len(rows) <= 20
            /\ Len(rows) = Len(objects)
            /\ \A i \in DOMAIN rows :
                  (HasKey(objects[i], "regionId") /\ Truthy(Item(objects[i], "regionId"))) =>
                      rows[i].cells[1] = Str(Item(objects[i], "regionId"))
            /\ IF Len(RegionsData) > 20
               THEN LinesOf("showing") = <<Line("showing", Len(RegionsData), <<>>)>>
               ELSE LinesOf("showing") = <<>>

C29_Witness ==
    /\ pc = "done" /\ call.tool = "get_regions_distribution" /\ IsSome(gateway)
    /\ Res.kind = "return" /\ Len(RegionsData) = 22
    /\ Len(LinesOf("row")) = 20
    /\ LinesOf("row")[20].cells[1] = <<"2", "0">>
    /\ LinesOf("showing")[1].idx = 22

C29_WitnessExactly20 ==
    /\ pc = "done" /\ call.tool = "get_regions_distribution" /\ IsSome(gateway)
    /\ Res.kind = "return" /\ Len(RegionsData) = 20
    /\ Len(LinesOf("row")) = 19 /\ LinesOf("showing") = <<>>

\* C30: in the text of get_dynamics and get_regions_distribution the
\* no-results line is there exactly when no data row is, and a table
\* header is followed by at least one data row, also when the extracted
\* sequence holds elements that are not objects
C30_HeaderHasRows ==
    (pc = "done" /\ call.tool \in {"get_dynamics", "get_regions_distribution"}
        /\ IsSome(result) /\ Res.kind = "return") =>
        /\ (Len(LinesOf("no_results")) = 1) <=> (LinesOf("row") = <<>>)
        /\ LinesOf("header") # <<>> => Len(LinesOf("row")) >= 1

====
